---- MODULE Spec2Model ----
(***************************************************************************)
(* A model of the offline data-processing pipeline of the interview        *)
(* explorer (scripts/process-data.js): the clustering engine               *)
(* (performClustering), the search index builder (buildSearchIndex) and    *)
(* the pipeline driver (main, processInterview, generateEmbedding,         *)
(* getEmbedder); of the semantic search of the browser application         *)
(* (src/components/SearchPanel.jsx); and of the full test run              *)
(* (scripts/test-full.js, runFullTest).                                    *)
(*                                                                         *)
(* Numbers.  JavaScript numbers are modelled as extended rationals: a      *)
(* record [kind, num, den] with kind "fin" (the value num/den, den > 0),   *)
(* "inf" (+Infinity) or "nan" (NaN).  Euclidean distances are carried      *)
(* squared (x |-> x*x is monotone on the non-negative numbers and keeps    *)
(* Infinity and NaN), the square root being taken only where the code adds *)
(* distances up (calculateClusterCohesion).  Floating-point rounding is    *)
(* not modelled.                                                           *)
(*                                                                         *)
(* Positions in TLA+ sequences are 1-based; the values the code stores     *)
(* (item.index, cluster ids) keep the code's 0-based numbering.            *)
(***************************************************************************)
EXTENDS Integers, Sequences, FiniteSets, TLC

VARIABLES
    \* ---- performClustering(vectorIndex, k) ----
    vectorIndex,   \* the argument: [defined, items], items a sequence of [index, embedding]
    k,             \* the requested number of clusters
    cpc,           \* position inside performClustering
    centers,       \* const centers = []
    usedIndices,   \* const usedIndices = new Set()   (1-based positions)
    clusters,      \* const clusters = Array(actualK)...
    iter,          \* the loop variable of the k-means loop
    rounds,        \* number of assignment/update rounds executed so far
    changedLast,   \* the value of `changed` at the end of the last round
    result,        \* the returned value
    \* ---- buildSearchIndex(interviews) ----
    corpus,        \* the argument: a sequence of enriched records
    bpc,           \* position: "call" or "returned"
    searchData,    \* the returned value: [documents, embeddings]
    \* ---- the pipeline driver: main and the processInterview tasks ----
    files,         \* jsonFiles: the content of each input file
    task,          \* per file, the processInterview call: its position, the
                   \* vectors its embedding calls returned, its settled result
    embedder,      \* let embedder = null
    loadsStarted,  \* number of pipeline(...) calls made so far
    validateErrors,\* validate.errors
    mpc,           \* position inside main
    built,         \* main's locals after line 505: successful, failed,
                   \* interviews, vectorIndices, clusteringResults, searchData
    written,       \* the artifacts written so far: file name -> content
    exitCode,      \* the exit status of the process once it has ended
    \* ---- buildVectorIndices(interviews) ----
    indexInput,    \* the argument interviews: a sequence of enriched records
    ipc,           \* position: "call" or "returned"
    indices,       \* const indices = {...}: the returned value
    \* ---- processInterview run twice on one record ----
    enrichData,    \* data: the record, as the last run left it
    epc,           \* position: "first", "second" or "done"
    enrichCalls,   \* the generateEmbedding calls of the last run: target and text
    firstRun,      \* the record the first run returned
    \* ---- one call of generateEmbedding(text) ----
    argText,       \* the argument: [present, chars]
    gpc,           \* position: "call", "awaitLoad", "awaitModel", "returned", "thrown"
    embedValue,    \* the value the call resolved to
    modelLoaded,   \* embedder !== null
    modelLoads,    \* number of pipeline(...) calls the call made
    modelCalls,    \* number of model(text, ...) calls the call made
    \* ---- performSemanticSearch(query), SearchPanel.jsx ----
    queryEmbedding,\* the embedding of the query
    semEmbeddings, \* the state `embeddings`: the candidates, [id, embedding]
    spc,           \* position: "call" or "returned"
    topResults,    \* const topResults: the result before tag filtering
    \* ---- runFullTest(interviewCount, sizeMultiplier), scripts/test-full.js ----
    inCI,          \* process.env.CI is set
    hasToken,      \* process.env.GITHUB_TOKEN is set
    tpc,           \* position inside runFullTest
    testPassed,    \* let testPassed = true
    testErrors,    \* testRun.errors
    deploymentSuccess, \* testRun.deploymentSuccess
    phases,        \* testRun.phases: per phase "none", "success", "failed" or "skipped"
    isCurrentDeployment, \* what verifyDeployment returned: "none", "yes" or "no"
    overallSuccess,\* testRun.overallSuccess: "unset", "true" or "false"
    calls,         \* the calls runFullTest has made to the phases' functions, in order
    resultsFile    \* the results file: [written, name, errors]

clusterVars == <<vectorIndex, k, cpc, centers, usedIndices, clusters, iter,
                 rounds, changedLast, result>>

searchVars == <<corpus, bpc, searchData>>

pipelineVars == <<files, task, embedder, loadsStarted, validateErrors, mpc,
                  built, written, exitCode>>

indexVars == <<indexInput, ipc, indices>>

\* the variables of the parts added after the first three
enrichVars == <<enrichData, epc, enrichCalls, firstRun>>

embedVars == <<argText, gpc, embedValue, modelLoaded, modelLoads, modelCalls>>

semanticVars == <<queryEmbedding, semEmbeddings, spc, topResults>>

fullTestVars == <<inCI, hasToken, tpc, testPassed, testErrors, deploymentSuccess, phases,
                  isCurrentDeployment, overallSuccess, calls, resultsFile>>

restVars == <<indexVars, enrichVars, embedVars, semanticVars, fullTestVars>>

vars == <<clusterVars, searchVars, pipelineVars, restVars>>

-----------------------------------------------------------------------------
(* Bounds of the model *)

\* largest number of entries of a vector index handed to performClustering
MaxEntries == 3

\* largest requested k
MaxK == 3

\* Math.random() is drawn from {0/RandomDen, ..., (RandomDen-1)/RandomDen}
RandomDen == 4

\* for (let iter = 0; iter < 20; iter++)
MaxIterations == 20

-----------------------------------------------------------------------------
(* Generic helpers *)

Range(s) == {s[i] : i \in 1..Len(s)}

RECURSIVE SumSeq(_)
SumSeq(s) == IF s = <<>> THEN 0 ELSE Head(s) + SumSeq(Tail(s))

MinOf(a, b) == IF a <= b THEN a ELSE b

Abs(x) == IF x < 0 THEN -x ELSE x

\* floor of the square root of a natural number
RECURSIVE ISqrtFrom(_, _)
ISqrtFrom(x, r) == IF (r + 1) * (r + 1) > x THEN r ELSE ISqrtFrom(x, r + 1)

ISqrt(x) == ISqrtFrom(x, 0)

-----------------------------------------------------------------------------
(* Extended rationals: JavaScript numbers with Infinity and NaN *)

Fin(n, d) == [kind |-> "fin", num |-> n, den |-> d]

Infinity == [kind |-> "inf", num |-> 0, den |-> 1]

NegInfinity == [kind |-> "ninf", num |-> 0, den |-> 1]

NaN == [kind |-> "nan", num |-> 0, den |-> 1]

\* a < b on JavaScript numbers (false when either is NaN)
NumLess(a, b) ==
    CASE a.kind = "nan" \/ b.kind = "nan" -> FALSE
      [] a.kind = "inf" -> FALSE
      [] b.kind = "inf" -> TRUE
      [] OTHER -> a.num * b.den < b.num * a.den

\* Math.min(a, b)
NumMin(a, b) ==
    CASE a.kind = "nan" \/ b.kind = "nan" -> NaN
      [] NumLess(b, a) -> b
      [] OTHER -> a

\* a + b for non-negative a, b
NumAdd(a, b) ==
    CASE a.kind = "nan" \/ b.kind = "nan" -> NaN
      [] a.kind = "inf" \/ b.kind = "inf" -> Infinity
      [] OTHER -> Fin(a.num * b.den + b.num * a.den, a.den * b.den)

\* a - b for a possibly +Infinity and b non-negative (Infinity - Infinity is NaN)
NumSub(a, b) ==
    CASE a.kind = "nan" \/ b.kind = "nan" -> NaN
      [] a.kind = "inf" /\ b.kind = "inf" -> NaN
      [] a.kind = "inf" -> Infinity
      [] b.kind = "inf" -> NegInfinity
      [] OTHER -> Fin(a.num * b.den - b.num * a.den, a.den * b.den)

\* r * b for a finite r >= 0 and b >= 0 (0 * Infinity is NaN)
NumMul(r, b) ==
    CASE b.kind = "nan" -> NaN
      [] b.kind = "inf" -> IF r.num = 0 THEN NaN ELSE Infinity
      [] OTHER -> Fin(r.num * b.num, r.den * b.den)

\* a <= 0
NumLeqZero(a) == a.kind = "ninf" \/ (a.kind = "fin" /\ a.num <= 0)

-----------------------------------------------------------------------------
(* Texts and embeddings *)

\* A text is a sequence of characters; " " is the only whitespace character of
\* the model.
SP == <<" ">>

\* mutant of IsBlank: the text is not trimmed
IsBlankUntrimmed(text) == text = <<>>

\* !text || text.trim() === ''
IsBlank(text) == \A i \in 1..Len(text) : text[i] = " "

\* texts.join(' ')
RECURSIVE Join(_)
Join(texts) ==
    IF texts = <<>> THEN <<>>
    ELSE IF Len(texts) = 1 THEN texts[1]
    ELSE texts[1] \o SP \o Join(Tail(texts))

\* the number of occurrences of character ch in text
RECURSIVE CountOf(_, _)
CountOf(text, ch) ==
    IF text = <<>> THEN 0
    ELSE (IF Head(text) = ch THEN 1 ELSE 0) + CountOf(Tail(text), ch)

\* Array.from(output.data) for the output of the embedding model on a non-blank
\* text: a deterministic, non-empty vector of the model's fixed dimension (2 in
\* place of 384), here the numbers of "a" and of "b" in the text
ModelOutput(text) == <<CountOf(text, "a"), CountOf(text, "b")>>

\* the value generateEmbedding(text) resolves to when the model does not fail
EmbeddingValue(text) == IF IsBlank(text) THEN <<>> ELSE ModelOutput(text)

-----------------------------------------------------------------------------
(* processInterview: the enrichment of one parsed, schema-valid record       *)
(*                                                                           *)
(* A record is [interviewId, intervieweeName, summaries, themes, quotes,     *)
(* timelinePoints, areasForImprovement]; an absent sequence (the code's      *)
(* optional chaining) is the empty sequence, an absent embedding the empty   *)
(* vector: the code treats both pairs alike.                                 *)

\* mutant of NeedsEmbedding: an embedding already present is not looked at
NeedsEmbeddingAlways(item) == TRUE

\* !x.embedding || x.embedding.length === 0
NeedsEmbedding(item) == item.embedding = <<>>

\* `${x.title} ${x.description}`
TitleDescription(x) == x.title \o SP \o x.description

\* the texts of the items of a section that get a generateEmbedding call
RECURSIVE SectionTexts(_, _)
SectionTexts(items, texts) ==
    IF items = <<>> THEN <<>>
    ELSE (IF NeedsEmbedding(Head(items)) THEN <<Head(texts)>> ELSE <<>>)
         \o SectionTexts(Tail(items), Tail(texts))

SummaryTexts(data) == [i \in 1..Len(data.summaries) |-> data.summaries[i].summaryText]

ThemeTexts(data) == [i \in 1..Len(data.themes) |-> TitleDescription(data.themes[i])]

QuoteTexts(data) == [i \in 1..Len(data.quotes) |-> data.quotes[i].quoteText]

TimelineTexts(data) ==
    [i \in 1..Len(data.timelinePoints) |-> data.timelinePoints[i].eventDescription]

AreaTexts(data) ==
    [i \in 1..Len(data.areasForImprovement) |->
        TitleDescription(data.areasForImprovement[i])]

\* the letters String.prototype.toLowerCase maps, and what it maps them to
UpperCaseLetters ==
    <<"A", "B", "C", "D", "E", "F", "G", "H", "I", "J", "K", "L", "M", "N",
      "O", "P", "Q", "R", "S", "T", "U", "V", "W", "X", "Y", "Z">>

LowerCaseLetters ==
    <<"a", "b", "c", "d", "e", "f", "g", "h", "i", "j", "k", "l", "m", "n",
      "o", "p", "q", "r", "s", "t", "u", "v", "w", "x", "y", "z">>

\* text.toLowerCase()
ToLowerCase(text) ==
    [i \in 1..Len(text) |->
        IF \E l \in 1..26 : UpperCaseLetters[l] = text[i]
        THEN LowerCaseLetters[CHOOSE l \in 1..26 : UpperCaseLetters[l] = text[i]]
        ELSE text[i]]

\* text.includes(pattern)
Includes(text, pattern) ==
    \E start \in 0..(Len(text) - Len(pattern)) :
        SubSeq(text, start + 1, start + Len(pattern)) = pattern

\* mutant of IsCollegeCategory: the category is not lower-cased
IsCollegeCategoryCaseSensitive(category) ==
    \/ Includes(category, <<"c", "o", "l", "l", "e", "g", "e">>)
    \/ Includes(category, <<"a", "c", "a", "d", "e", "m", "i", "c">>)

\* s.category?.toLowerCase().includes('college') ||
\* s.category?.toLowerCase().includes('academic')
IsCollegeCategory(category) ==
    \/ Includes(ToLowerCase(category), <<"c", "o", "l", "l", "e", "g", "e">>)
    \/ Includes(ToLowerCase(category), <<"a", "c", "a", "d", "e", "m", "i", "c">>)

RECURSIVE CollegeTexts(_)
CollegeTexts(summaries) ==
    IF summaries = <<>> THEN <<>>
    ELSE (IF IsCollegeCategory(Head(summaries).category)
          THEN <<Head(summaries).summaryText>> ELSE <<>>)
         \o CollegeTexts(Tail(summaries))

\* the four texts of data.categoryEmbeddings, in the order of lines 101-115
CategoryTexts(data) ==
    << Join(SummaryTexts(data)), Join(ThemeTexts(data)),
       Join(CollegeTexts(data.summaries)), Join(QuoteTexts(data)) >>

\* [...new Set(seq)]: the distinct elements in the order of their first occurrence
RECURSIVE Distinct(_)
Distinct(seq) ==
    IF seq = <<>> THEN <<>>
    ELSE LET rest == Distinct(SubSeq(seq, 1, Len(seq) - 1))
             last == seq[Len(seq)]
         IN  IF last \in Range(rest) THEN rest ELSE Append(rest, last)

\* quotes.flatMap(q => q.tags || [])
RECURSIVE FlatTags(_)
FlatTags(quotes) ==
    IF quotes = <<>> THEN <<>> ELSE Head(quotes).tags \o FlatTags(Tail(quotes))

\* const quoteTags = [...new Set(...)]
QuoteTags(data) == Distinct(FlatTags(data.quotes))

\* quotes.filter(q => q.tags?.includes(tag)).map(q => q.quoteText)
RECURSIVE TextsTagged(_, _)
TextsTagged(quotes, tag) ==
    IF quotes = <<>> THEN <<>>
    ELSE (IF tag \in Range(Head(quotes).tags) THEN <<Head(quotes).quoteText>> ELSE <<>>)
         \o TextsTagged(Tail(quotes), tag)

\* const tagQuotes = ....join(' ') || ''
TagQuotes(data, tag) == Join(TextsTagged(data.quotes, tag))

\* the tags that get an entry of data.tagEmbeddings:  if (tagQuotes)  holds for
\* a non-empty string
RECURSIVE TagsEmbedded(_, _)
TagsEmbedded(data, tags) ==
    IF tags = <<>> THEN <<>>
    ELSE (IF TagQuotes(data, Head(tags)) # <<>> THEN <<Head(tags)>> ELSE <<>>)
         \o TagsEmbedded(data, Tail(tags))

\* the texts of the generateEmbedding calls processInterview makes for a record,
\* in the order it makes them (lines 53-128)
EmbedTexts(data) ==
    LET tags == TagsEmbedded(data, QuoteTags(data))
    IN  SectionTexts(data.summaries, SummaryTexts(data))
        \o SectionTexts(data.themes, ThemeTexts(data))
        \o SectionTexts(data.quotes, QuoteTexts(data))
        \o SectionTexts(data.timelinePoints, TimelineTexts(data))
        \o SectionTexts(data.areasForImprovement, AreaTexts(data))
        \o CategoryTexts(data)
        \o [j \in 1..Len(tags) |-> TagQuotes(data, tags[j])]

\* the items of a section that get a generateEmbedding call, as [section, pos]
RECURSIVE SectionTargets(_, _, _)
SectionTargets(items, section, i) ==
    IF i > Len(items) THEN <<>>
    ELSE (IF NeedsEmbedding(items[i]) THEN <<[section |-> section, pos |-> i]>>
          ELSE <<>>)
         \o SectionTargets(items, section, i + 1)

\* what each call of EmbedTexts(data) is made for, in the same order
EmbedTargets(data) ==
    LET tags == TagsEmbedded(data, QuoteTags(data))
    IN  SectionTargets(data.summaries, "summaries", 1)
        \o SectionTargets(data.themes, "themes", 1)
        \o SectionTargets(data.quotes, "quotes", 1)
        \o SectionTargets(data.timelinePoints, "timelinePoints", 1)
        \o SectionTargets(data.areasForImprovement, "areasForImprovement", 1)
        \o [c \in 1..4 |-> [section |-> "categoryEmbeddings", pos |-> c]]
        \o [j \in 1..Len(tags) |-> [section |-> "tagEmbeddings", pos |-> j]]

\* the number of items among the first i of a section that get a call
RECURSIVE NeedsUpTo(_, _)
NeedsUpTo(items, i) ==
    IF i = 0 THEN 0
    ELSE NeedsUpTo(items, i - 1) + (IF NeedsEmbedding(items[i]) THEN 1 ELSE 0)

\* a section with the embeddings the calls returned put in place; base is the
\* number of calls made before the section's
FillSection(items, vecs, base) ==
    [i \in 1..Len(items) |->
        IF NeedsEmbedding(items[i])
        THEN [items[i] EXCEPT !.embedding = vecs[base + NeedsUpTo(items, i)]]
        ELSE items[i]]

\* the record processInterview returns as `data` when its calls returned vecs
Enriched(data, vecs) ==
    LET b1 == 0
        b2 == b1 + NeedsUpTo(data.summaries, Len(data.summaries))
        b3 == b2 + NeedsUpTo(data.themes, Len(data.themes))
        b4 == b3 + NeedsUpTo(data.quotes, Len(data.quotes))
        b5 == b4 + NeedsUpTo(data.timelinePoints, Len(data.timelinePoints))
        b6 == b5 + NeedsUpTo(data.areasForImprovement, Len(data.areasForImprovement))
        tags == TagsEmbedded(data, QuoteTags(data))
    IN  [interviewId |-> data.interviewId,
         intervieweeName |-> data.intervieweeName,
         summaries |-> FillSection(data.summaries, vecs, b1),
         themes |-> FillSection(data.themes, vecs, b2),
         quotes |-> FillSection(data.quotes, vecs, b3),
         timelinePoints |-> FillSection(data.timelinePoints, vecs, b4),
         areasForImprovement |-> FillSection(data.areasForImprovement, vecs, b5),
         categoryEmbeddings |->
             [summary |-> vecs[b6 + 1], themes |-> vecs[b6 + 2],
              collegeExperience |-> vecs[b6 + 3], quotes |-> vecs[b6 + 4]],
         tagEmbeddings |->
             [j \in 1..Len(tags) |-> [tag |-> tags[j], embedding |-> vecs[b6 + 4 + j]]]]

\* the record processInterview returns when no embedding call fails
Enrich(data) ==
    LET texts == EmbedTexts(data)
    IN  Enriched(data, [i \in 1..Len(texts) |-> EmbeddingValue(texts[i])])

-----------------------------------------------------------------------------
(* Vectors and cluster centers *)

\* A cluster center: coordinate i is NaN when nan[i], and num[i]/den otherwise.
\* [...vectors[idx]] : the copy of an entry's embedding
CenterOf(v) == [num |-> v, den |-> 1, nan |-> [i \in 1..Len(v) |-> FALSE]]

\* mutant of euclideanDistance: no length test, the missing coordinates count
\* as equal
euclideanDistanceUnchecked(a, b) ==
    IF \E i \in 1..MinOf(Len(a), Len(b.num)) : b.nan[i] THEN NaN
    ELSE Fin(SumSeq([i \in 1..MinOf(Len(a), Len(b.num)) |->
                       (a[i] * b.den - b.num[i]) * (a[i] * b.den - b.num[i])]),
             b.den * b.den)

\* euclideanDistance(a, b), squared; a an embedding, b a center: Infinity when
\* the lengths differ (line 422)
euclideanDistance(a, b) ==
    IF Len(a) # Len(b.num) THEN Infinity
    ELSE IF \E i \in 1..Len(a) : b.nan[i] THEN NaN
    ELSE Fin(SumSeq([i \in 1..Len(a) |->
                       (a[i] * b.den - b.num[i]) * (a[i] * b.den - b.num[i])]),
             b.den * b.den)

\* mutant of ActualK: the requested k is not capped by the number of entries
ActualKUncapped(items, kk) == kk

\* const actualK = Math.min(k, vectors.length)
ActualK(items, kk) == MinOf(kk, Len(items))

-----------------------------------------------------------------------------
(* k-means++ seeding *)

\* centers.forEach(center => minDist = Math.min(minDist, dist)), from Infinity
RECURSIVE MinDistTo(_, _, _)
MinDistTo(v, cs, i) ==
    IF i > Len(cs) THEN Infinity
    ELSE NumMin(euclideanDistance(v, cs[i]), MinDistTo(v, cs, i + 1))

\* const distances = vectors.map(...): 0 for a used index, else the (squared)
\* distance to the nearest chosen center
SeedDistances(items, cs, used) ==
    [i \in 1..Len(items) |->
        IF i \in used THEN Fin(0, 1) ELSE MinDistTo(items[i].embedding, cs, 1)]

\* distances.reduce((a, b) => a + b * b, 0)
RECURSIVE SumDist(_, _)
SumDist(ds, i) ==
    IF i > Len(ds) THEN Fin(0, 1) ELSE NumAdd(ds[i], SumDist(ds, i + 1))

\* the scan  for (j ...) { random -= d[j]^2; if (random <= 0 && !used.has(j)) ... }
\* returns the chosen position, position 1 (chosenIdx = 0) when the scan ends
\* without choosing
RECURSIVE SeedScan(_, _, _, _)
SeedScan(ds, used, j, random) ==
    IF j > Len(ds) THEN 1
    ELSE LET r2 == NumSub(random, ds[j])
         IN  IF NumLeqZero(r2) /\ j \notin used THEN j
             ELSE SeedScan(ds, used, j + 1, r2)

\* the index chosen as the next center when Math.random() returns rnd/RandomDen
ChosenIdx(items, cs, used, rnd) ==
    LET ds == SeedDistances(items, cs, used)
        random == NumMul(Fin(rnd, RandomDen), SumDist(ds, 1))
    IN  SeedScan(ds, used, 1, random)

-----------------------------------------------------------------------------
(* Lloyd's iteration *)

\* clusters.forEach((cluster, cIdx) => { if (dist < minDist) ... }): the position
\* of the cluster the entry is assigned to
RECURSIVE NearestFrom(_, _, _, _, _)
NearestFrom(v, cls, cIdx, minDist, nearest) ==
    IF cIdx > Len(cls) THEN nearest
    ELSE LET dist == euclideanDistance(v, cls[cIdx].center)
         IN  IF NumLess(dist, minDist)
             THEN NearestFrom(v, cls, cIdx + 1, dist, cIdx)
             ELSE NearestFrom(v, cls, cIdx + 1, minDist, nearest)

\* mutant of NearestCluster: of the centers at the minimum distance the last one
\* wins
NearestClusterLastTie(v, cls) ==
    LET Dist(c) == euclideanDistance(v, cls[c].center)
        best == {c \in 1..Len(cls) : \A c2 \in 1..Len(cls) : ~NumLess(Dist(c2), Dist(c))}
    IN  CHOOSE c \in best : \A c2 \in best : c2 <= c

\* let nearestCluster = 0; let minDist = Infinity; ... : the cluster an entry is
\* assigned to
NearestCluster(v, cls) == NearestFrom(v, cls, 1, Infinity, 1)

\* the members of cluster c after the assignment pass: item.index of the entries
\* assigned to it, in the order of vectorIndex
RECURSIVE MembersOf(_, _, _, _)
MembersOf(items, cls, c, i) ==
    IF i > Len(items) THEN <<>>
    ELSE (IF NearestCluster(items[i].embedding, cls) = c
          THEN <<items[i].index>> ELSE <<>>)
         \o MembersOf(items, cls, c, i + 1)

\* vectorIndex.find(v => v.index === memberIdx): the position of the first entry
\* with that index, 0 when there is none
RECURSIVE FindFrom(_, _, _)
FindFrom(items, memberIdx, i) ==
    IF i > Len(items) THEN 0
    ELSE IF items[i].index = memberIdx THEN i
    ELSE FindFrom(items, memberIdx, i + 1)

Find(items, memberIdx) == FindFrom(items, memberIdx, 1)

\* the embeddings of the members that vectorIndex.find finds
FoundEmbeddings(items, members) ==
    LET Pos(m) == Find(items, members[m])
        RECURSIVE Collect(_)
        Collect(m) == IF m > Len(members) THEN <<>>
                      ELSE (IF Pos(m) # 0 THEN <<items[Pos(m)].embedding>> ELSE <<>>)
                           \o Collect(m + 1)
    IN  Collect(1)

\* newCenter after the update of a cluster with members: Array(center.length)
\* .fill(0), each found member's coordinates added (a coordinate beyond
\* center.length starts undefined, and undefined + val is NaN), then every
\* coordinate divided by members.length
NewCenter(items, cluster) ==
    LET embs == FoundEmbeddings(items, cluster.members)
        oldLen == Len(cluster.center.num)
        lens == {Len(embs[m]) : m \in 1..Len(embs)} \cup {oldLen}
        newLen == CHOOSE l \in lens : \A l2 \in lens : l2 <= l
        Coord(i) == SumSeq([m \in 1..Len(embs) |->
                              IF i <= Len(embs[m]) THEN embs[m][i] ELSE 0])
    IN  [num |-> [i \in 1..newLen |-> IF i <= oldLen THEN Coord(i) ELSE 0],
         den |-> Len(cluster.members),
         nan |-> [i \in 1..newLen |-> i > oldLen]]

\* mutant of CenterMoved: the threshold is 1 instead of 0.001
CenterMovedByOne(old, new) ==
    \E i \in 1..Len(new.num) :
        /\ i <= Len(old.num)
        /\ ~new.nan[i]
        /\ ~old.nan[i]
        /\ Abs(new.num[i] * old.den - old.num[i] * new.den) > new.den * old.den

\* Math.abs(newCenter[i] - cluster.center[i]) > 0.001 for some coordinate i
\* (false for a NaN or undefined operand)
CenterMoved(old, new) ==
    \E i \in 1..Len(new.num) :
        /\ i <= Len(old.num)
        /\ ~new.nan[i]
        /\ ~old.nan[i]
        /\ Abs(new.num[i] * old.den - old.num[i] * new.den) * 1000
              > new.den * old.den

\* mutant of Assigned: the members are not cleared at the start of a round
AssignedWithoutClear(items, cls) ==
    [c \in 1..Len(cls) |->
        [cls[c] EXCEPT !.members = cls[c].members \o MembersOf(items, cls, c, 1)]]

\* the clusters after the assignment pass (members cleared, then refilled)
Assigned(items, cls) ==
    [c \in 1..Len(cls) |-> [cls[c] EXCEPT !.members = MembersOf(items, cls, c, 1)]]

\* mutant of Updated: the center of a cluster without members is recomputed too
UpdatedEmptyToo(items, cls) ==
    [c \in 1..Len(cls) |-> [cls[c] EXCEPT !.center = NewCenter(items, cls[c])]]

\* the clusters after the center update of a round: a cluster without members
\* returns early (line 387) and keeps its center
Updated(items, cls) ==
    [c \in 1..Len(cls) |->
        IF cls[c].members = <<>> THEN cls[c]
        ELSE [cls[c] EXCEPT !.center = NewCenter(items, cls[c])]]

\* let changed = ... at the end of the update
Changed(items, cls) ==
    \E c \in 1..Len(cls) :
        /\ cls[c].members # <<>>
        /\ CenterMoved(cls[c].center, NewCenter(items, cls[c]))

\* mutant of LoopContinues: the break test is inverted and the cap is missing
LoopContinuesUncapped(it, changed) == ~changed

\* whether the k-means loop runs another round after the round with loop
\* variable it:  if (!changed) break;  and the loop test  iter < 20
LoopContinues(it, changed) == changed /\ it + 1 < MaxIterations

\* the remaining centers (lines 327-354), Math.random() returning rnd/RandomDen
RECURSIVE SeedCenters(_, _, _, _, _)
SeedCenters(items, kk, cs, used, rnd) ==
    IF Len(cs) >= ActualK(items, kk) THEN cs
    ELSE LET chosenIdx == ChosenIdx(items, cs, used, rnd)
         IN  SeedCenters(items, kk, Append(cs, CenterOf(items[chosenIdx].embedding)),
                         used \cup {chosenIdx}, rnd)

\* const clusters = Array(actualK).fill(null).map(...)
InitialClusters(items, kk, cs) ==
    [i \in 1..ActualK(items, kk) |->
        [id |-> i - 1, center |-> cs[i], members |-> <<>>]]

\* the k-means loop from the round with loop variable it on
RECURSIVE Lloyd(_, _, _)
Lloyd(items, cls, it) ==
    LET assigned == Assigned(items, cls)
    IN  IF LoopContinues(it, Changed(items, assigned))
        THEN Lloyd(items, Updated(items, assigned), it + 1)
        ELSE Updated(items, assigned)

-----------------------------------------------------------------------------
(* Cluster statistics *)

\* the (squared) distances of the found members to the center
MemberDistances(cluster, items) ==
    LET embs == FoundEmbeddings(items, cluster.members)
    IN  [m \in 1..Len(embs) |-> euclideanDistance(embs[m], cluster.center)]

\* calculateClusterCohesion(cluster, vectorIndex).  With every member at a finite
\* distance sqrt(n_m)/den of the center, 1 / (1 + totalDist / count) is
\* count*den / (count*den + sum of sqrt(n_m)); square roots are rounded down to
\* a tenth.  An Infinity in the sum gives 1/(1+Infinity) = 0, a NaN gives NaN.
calculateClusterCohesion(cluster, items) ==
    IF Len(cluster.members) <= 1 THEN Fin(1, 1)
    ELSE LET ds == MemberDistances(cluster, items)
             count == Len(ds)
         IN  IF count = 0 THEN Fin(0, 1)
             ELSE IF \E m \in 1..count : ds[m].kind = "nan" THEN NaN
             ELSE IF \E m \in 1..count : ds[m].kind = "inf" THEN Fin(0, 1)
             ELSE LET den == cluster.center.den
                      roots == SumSeq([m \in 1..count |-> ISqrt(100 * ds[m].num)])
                  IN  Fin(10 * count * den, 10 * count * den + roots)

\* clusters.forEach(cluster => { cluster.size = ...; cluster.cohesion = ... })
WithStatistics(items, cls) ==
    [c \in 1..Len(cls) |->
        [id |-> cls[c].id, center |-> cls[c].center, members |-> cls[c].members,
         size |-> Len(cls[c].members),
         cohesion |-> calculateClusterCohesion(cls[c], items)]]

\* performClustering(items, kk) as a function of its random draws: the first
\* center is the entry at position firstIdx, every later Math.random() returns
\* rnd/RandomDen
performClustering(items, kk, firstIdx, rnd) ==
    IF Len(items) = 0 THEN <<>>
    ELSE LET cs == SeedCenters(items, kk, <<CenterOf(items[firstIdx].embedding)>>,
                               {firstIdx}, rnd)
         IN  WithStatistics(items, Lloyd(items, InitialClusters(items, kk, cs), 0))

-----------------------------------------------------------------------------
(* buildVectorIndices(interviews) *)

\* interview.categoryEmbeddings?.[name]
CategoryEmbedding(interview, name) ==
    CASE name = "summary" -> interview.categoryEmbeddings.summary
      [] name = "themes" -> interview.categoryEmbeddings.themes
      [] name = "collegeExperience" -> interview.categoryEmbeddings.collegeExperience
      [] name = "quotes" -> interview.categoryEmbeddings.quotes

\* mutant of CategoryEntries: the aggregate's length is not tested
CategoryEntriesUnfiltered(interviews, name, idx) ==
    [i \in 1..(Len(interviews) - idx + 1) |->
        [id |-> interviews[idx + i - 1].interviewId, index |-> idx + i - 2,
         embedding |-> CategoryEmbedding(interviews[idx + i - 1], name)]]

\* the entries of one fixed set: the records whose category aggregate embedding
\* has length > 0, in input order (lines 157-192)
RECURSIVE CategoryEntries(_, _, _)
CategoryEntries(interviews, name, idx) ==
    IF idx > Len(interviews) THEN <<>>
    ELSE (IF Len(CategoryEmbedding(interviews[idx], name)) > 0
          THEN <<[id |-> interviews[idx].interviewId, index |-> idx - 1,
                  embedding |-> CategoryEmbedding(interviews[idx], name)]>>
          ELSE <<>>)
         \o CategoryEntries(interviews, name, idx + 1)

\* the tags of all quotes of all records, in the order of the Set allTags
RECURSIVE AllTagsList(_)
AllTagsList(interviews) ==
    IF interviews = <<>> THEN <<>>
    ELSE FlatTags(Head(interviews).quotes) \o AllTagsList(Tail(interviews))

AllTags(interviews) == Distinct(AllTagsList(interviews))

\* interview.tagEmbeddings?.[tag]: the position of the tag's entry, 0 when the
\* record has none
RECURSIVE TagEmbeddingPos(_, _, _)
TagEmbeddingPos(tagEmbeddings, tag, j) ==
    IF j > Len(tagEmbeddings) THEN 0
    ELSE IF tagEmbeddings[j].tag = tag THEN j
    ELSE TagEmbeddingPos(tagEmbeddings, tag, j + 1)

\* if (interview.tagEmbeddings?.[tag]): the property exists (an array, even an
\* empty one, is truthy)
HasTagEmbedding(interview, tag) ==
    TagEmbeddingPos(interview.tagEmbeddings, tag, 1) # 0

\* the entries of one tag's set (lines 195-206)
RECURSIVE TagEntries(_, _, _)
TagEntries(interviews, tag, idx) ==
    IF idx > Len(interviews) THEN <<>>
    ELSE (IF HasTagEmbedding(interviews[idx], tag)
          THEN <<[id |-> interviews[idx].interviewId, index |-> idx - 1,
                  embedding |->
                      interviews[idx].tagEmbeddings[
                          TagEmbeddingPos(interviews[idx].tagEmbeddings, tag, 1)].embedding]>>
          ELSE <<>>)
         \o TagEntries(interviews, tag, idx + 1)

\* the keys of indices.tags, in the order of their creation: records in input
\* order, for each the tags of allTags it has an embedding for
RECURSIVE TagKeysList(_, _, _)
TagKeysList(interviews, allTags, idx) ==
    IF idx > Len(interviews) THEN <<>>
    ELSE LET Keep(j) == HasTagEmbedding(interviews[idx], allTags[j])
             RECURSIVE Kept(_)
             Kept(j) == IF j > Len(allTags) THEN <<>>
                        ELSE (IF Keep(j) THEN <<allTags[j]>> ELSE <<>>) \o Kept(j + 1)
         IN  Kept(1) \o TagKeysList(interviews, allTags, idx + 1)

buildVectorIndices(interviews) ==
    LET keys == Distinct(TagKeysList(interviews, AllTags(interviews), 1))
    IN  [summary |-> CategoryEntries(interviews, "summary", 1),
         themes |-> CategoryEntries(interviews, "themes", 1),
         collegeExperience |-> CategoryEntries(interviews, "collegeExperience", 1),
         quotes |-> CategoryEntries(interviews, "quotes", 1),
         tags |-> [j \in 1..Len(keys) |->
                     [tag |-> keys[j], entries |-> TagEntries(interviews, keys[j], 1)]]]

-----------------------------------------------------------------------------
(* buildSearchIndex(interviews) *)

\* `interview_${interview.interviewId}`
InterviewDocId(interview) == <<"interview", "_">> \o interview.interviewId

\* `theme_${interview.interviewId}_${theme.themeId}`
ThemeDocId(interview, theme) ==
    <<"theme", "_">> \o interview.interviewId \o <<"_">> \o theme.themeId

\* `quote_${interview.interviewId}_${quote.quoteId}`
QuoteDocId(interview, quote) ==
    <<"quote", "_">> \o interview.interviewId \o <<"_">> \o quote.quoteId

\* if (x.embedding) / if (interview.categoryEmbeddings?.summary): the value is
\* an array in every enriched record (processInterview sets categoryEmbeddings
\* and every theme's and quote's embedding), and an array, even an empty one, is
\* truthy
IsTruthy(embedding) == Len(embedding) >= 0

\* mutant of DocumentsOf: no document is pushed for the themes
DocumentsOfWithoutThemes(interview) ==
    << [id |-> InterviewDocId(interview), type |-> "interview",
        interviewId |-> interview.interviewId,
        title |-> interview.interviewId,
        content |-> Join(SummaryTexts(interview))] >>
    \o [q \in 1..Len(interview.quotes) |->
          [id |-> QuoteDocId(interview, interview.quotes[q]), type |-> "quote",
           interviewId |-> interview.interviewId,
           title |-> <<>>,
           content |-> interview.quotes[q].quoteText]]

\* the documents one record contributes, in the order they are pushed
DocumentsOf(interview) ==
    << [id |-> InterviewDocId(interview), type |-> "interview",
        interviewId |-> interview.interviewId,
        title |-> IF interview.intervieweeName # <<>>
                  THEN interview.intervieweeName ELSE interview.interviewId,
        content |-> Join(SummaryTexts(interview))] >>
    \o [t \in 1..Len(interview.themes) |->
          [id |-> ThemeDocId(interview, interview.themes[t]), type |-> "theme",
           interviewId |-> interview.interviewId,
           title |-> interview.themes[t].title,
           content |-> interview.themes[t].description]]
    \o [q \in 1..Len(interview.quotes) |->
          [id |-> QuoteDocId(interview, interview.quotes[q]), type |-> "quote",
           interviewId |-> interview.interviewId,
           title |-> <<>>,
           content |-> interview.quotes[q].quoteText]]

\* the entries the themes of a record push to embeddings (lines 251-257)
RECURSIVE ThemeEmbeddings(_, _)
ThemeEmbeddings(interview, themes) ==
    IF themes = <<>> THEN <<>>
    ELSE (IF IsTruthy(Head(themes).embedding)
          THEN <<[id |-> ThemeDocId(interview, Head(themes)),
                  embedding |-> Head(themes).embedding, type |-> "theme"]>>
          ELSE <<>>)
         \o ThemeEmbeddings(interview, Tail(themes))

\* the entries the quotes of a record push to embeddings (lines 273-284)
RECURSIVE QuoteEmbeddings(_, _)
QuoteEmbeddings(interview, quotes) ==
    IF quotes = <<>> THEN <<>>
    ELSE (IF IsTruthy(Head(quotes).embedding)
          THEN <<[id |-> QuoteDocId(interview, Head(quotes)),
                  embedding |-> Head(quotes).embedding, type |-> "quote"]>>
          ELSE <<>>)
         \o QuoteEmbeddings(interview, Tail(quotes))

\* the embeddings entries one record contributes
EmbeddingsOf(interview) ==
    (IF IsTruthy(interview.categoryEmbeddings.summary)
     THEN <<[id |-> InterviewDocId(interview),
             embedding |-> interview.categoryEmbeddings.summary,
             type |-> "interview"]>>
     ELSE <<>>)
    \o ThemeEmbeddings(interview, interview.themes)
    \o QuoteEmbeddings(interview, interview.quotes)

RECURSIVE AllDocuments(_)
AllDocuments(interviews) ==
    IF interviews = <<>> THEN <<>>
    ELSE DocumentsOf(Head(interviews)) \o AllDocuments(Tail(interviews))

RECURSIVE AllEmbeddings(_)
AllEmbeddings(interviews) ==
    IF interviews = <<>> THEN <<>>
    ELSE EmbeddingsOf(Head(interviews)) \o AllEmbeddings(Tail(interviews))

\* buildSearchIndex(interviews); the Lunr index (index) is built from documents
\* by the library and is not modelled
buildSearchIndex(interviews) ==
    [documents |-> AllDocuments(interviews), embeddings |-> AllEmbeddings(interviews)]

-----------------------------------------------------------------------------
(* Input records *)

Digits == <<"1", "2", "3", "4", "5", "6", "7", "8", "9">>

\* the category 'College Life'
CollegeLife == <<"C", "o", "l", "l", "e", "g", "e", " ", "L", "i", "f", "e">>

Summary(category, text) ==
    [category |-> category, summaryText |-> text, embedding |-> <<>>]

Theme(j, title, description, embedding) ==
    [themeId |-> <<"t", Digits[j]>>, title |-> title, description |-> description,
     embedding |-> embedding]

Quote(j, text, tags) ==
    [quoteId |-> <<"q", Digits[j]>>, quoteText |-> text, tags |-> tags,
     embedding |-> <<>>]

Record(i, summaries, themes, quotes) ==
    [interviewId |-> <<"r", Digits[i]>>, intervieweeName |-> <<>>,
     summaries |-> summaries, themes |-> themes, quotes |-> quotes,
     timelinePoints |-> <<>>, areasForImprovement |-> <<>>]

\* the summaries, themes and quotes the input records of the model are made of:
\* sections that are empty, texts that are blank, an embedding already present
SummaryOptions ==
    { <<>>,
      <<Summary(CollegeLife, <<"a">>)>> }

ThemeOptions ==
    { <<>>,
      <<Theme(1, <<"a">>, <<"b">>, <<>>)>>,
      <<Theme(1, <<"b">>, <<"b">>, <<1, 1>>), Theme(2, <<>>, <<>>, <<>>)>> }

QuoteOptions ==
    { <<>>,
      <<Quote(1, <<"a">>, <<"growth">>)>>,
      <<Quote(1, <<"b">>, <<"growth", "support">>), Quote(2, SP, <<"support">>)>>,
      <<Quote(1, <<>>, <<"wellbeing">>)>>,
      <<Quote(1, SP, <<"growth">>)>> }

\* the input records with the id of position i
RawRecords(i) ==
    {Record(i, s, t, q) : s \in SummaryOptions, t \in ThemeOptions, q \in QuoteOptions}

\* the lists of exactly m records, ids by position
RECURSIVE RawCorporaOfLen(_)
RawCorporaOfLen(m) ==
    IF m = 0 THEN {<<>>}
    ELSE {Append(c, r) : c \in RawCorporaOfLen(m - 1), r \in RawRecords(m)}

\* the lists of at most n records
RawCorpora(n) == UNION {RawCorporaOfLen(m) : m \in 0..n}

-----------------------------------------------------------------------------
(* performClustering(vectorIndex, k) as a state machine *)

\* the embeddings of the model: the empty vector and three 2-dimensional ones
Vectors == {<<>>, <<0, 0>>, <<1, 0>>, <<4, 3>>}

\* the entry lists: n embeddings, the entries' corpus positions (item.index)
\* increasing from 0 or from 1
EntryLists ==
    UNION {{[i \in 1..n |-> [index |-> off + i - 1, embedding |-> e[i]]] :
              e \in [1..n -> Vectors], off \in 0..1} : n \in 0..MaxEntries}

\* the value of an absent argument
Undefined == [defined |-> FALSE, items |-> <<>>]

\* Each part of the program is checked under a specification of its own; the
\* variables of the other parts then keep these idle values.
SearchIdle ==
    /\ corpus = <<>>
    /\ bpc = "idle"
    /\ searchData = [documents |-> <<>>, embeddings |-> <<>>]

ClusterIdle ==
    /\ vectorIndex = Undefined
    /\ k = 0
    /\ cpc = "idle"
    /\ centers = <<>>
    /\ usedIndices = {}
    /\ clusters = <<>>
    /\ iter = 0
    /\ rounds = 0
    /\ changedLast = FALSE
    /\ result = <<>>

PipelineIdle ==
    /\ files = <<>>
    /\ task = <<>>
    /\ embedder = "null"
    /\ loadsStarted = 0
    /\ validateErrors = 0
    /\ mpc = "idle"
    /\ built = <<>>
    /\ written = <<>>
    /\ exitCode = -1

IndexIdle ==
    /\ indexInput = <<>>
    /\ ipc = "idle"
    /\ indices = <<>>

EnrichIdle ==
    /\ enrichData = <<>>
    /\ epc = "idle"
    /\ enrichCalls = <<>>
    /\ firstRun = <<>>

EmbedIdle ==
    /\ argText = [present |-> FALSE, chars |-> <<>>]
    /\ gpc = "idle"
    /\ embedValue = <<>>
    /\ modelLoaded = FALSE
    /\ modelLoads = 0
    /\ modelCalls = 0

SemanticIdle ==
    /\ queryEmbedding = <<>>
    /\ semEmbeddings = <<>>
    /\ spc = "idle"
    /\ topResults = <<>>

NoPhases ==
    [mockGeneration |-> "none", dataProcessing |-> "none", siteBuild |-> "none",
     deployment |-> "none", performanceTest |-> "none"]

NoResultsFile == [written |-> FALSE, name |-> "", errors |-> <<>>]

FullTestIdle ==
    /\ inCI = FALSE
    /\ hasToken = FALSE
    /\ tpc = "idle"
    /\ testPassed = TRUE
    /\ testErrors = <<>>
    /\ deploymentSuccess = FALSE
    /\ phases = NoPhases
    /\ isCurrentDeployment = "none"
    /\ overallSuccess = "unset"
    /\ calls = <<>>
    /\ resultsFile = NoResultsFile

RestIdle == IndexIdle /\ EnrichIdle /\ EmbedIdle /\ SemanticIdle /\ FullTestIdle

InitCluster ==
    /\ vectorIndex \in {Undefined} \cup {[defined |-> TRUE, items |-> l] : l \in EntryLists}
    /\ k \in 1..MaxK
    /\ cpc = "call"
    /\ centers = <<>>
    /\ usedIndices = {}
    /\ clusters = <<>>
    /\ iter = 0
    /\ rounds = 0
    /\ changedLast = FALSE
    /\ result = <<>>
    /\ SearchIdle
    /\ PipelineIdle
    /\ RestIdle

\* lines 312-324: the early return, or the choice of the first center
Enter ==
    /\ cpc = "call"
    /\ \/ /\ ~vectorIndex.defined \/ Len(vectorIndex.items) = 0
          /\ result' = <<>>
          /\ cpc' = "returned"
          /\ UNCHANGED <<centers, usedIndices>>
       \/ /\ vectorIndex.defined /\ Len(vectorIndex.items) > 0
          /\ \E firstIdx \in 1..Len(vectorIndex.items) :
                /\ centers' = <<CenterOf(vectorIndex.items[firstIdx].embedding)>>
                /\ usedIndices' = {firstIdx}
          /\ cpc' = "seed"
          /\ UNCHANGED result
    /\ UNCHANGED <<vectorIndex, k, clusters, iter, rounds, changedLast>>
    /\ UNCHANGED <<searchVars, pipelineVars, restVars>>

\* lines 327-354: one pass of the loop choosing the remaining centers
ChooseCenter ==
    /\ cpc = "seed"
    /\ Len(centers) < ActualK(vectorIndex.items, k)
    /\ \E rnd \in 0..(RandomDen - 1) :
          LET chosenIdx == ChosenIdx(vectorIndex.items, centers, usedIndices, rnd)
          IN  /\ centers' = Append(centers, CenterOf(vectorIndex.items[chosenIdx].embedding))
              /\ usedIndices' = usedIndices \cup {chosenIdx}
    /\ UNCHANGED <<vectorIndex, k, cpc, clusters, iter, rounds, changedLast, result>>
    /\ UNCHANGED <<searchVars, pipelineVars, restVars>>

\* lines 357-361: the clusters, one per center
InitClusters ==
    /\ cpc = "seed"
    /\ Len(centers) >= ActualK(vectorIndex.items, k)
    /\ clusters' = InitialClusters(vectorIndex.items, k, centers)
    /\ iter' = 0
    /\ cpc' = "loop"
    /\ UNCHANGED <<vectorIndex, k, centers, usedIndices, rounds, changedLast, result>>
    /\ UNCHANGED <<searchVars, pipelineVars, restVars>>

\* lines 364-410: one round of the k-means loop
Round ==
    /\ cpc = "loop"
    /\ LET assigned == Assigned(vectorIndex.items, clusters)
           changed == Changed(vectorIndex.items, assigned)
       IN  /\ clusters' = Updated(vectorIndex.items, assigned)
           /\ changedLast' = changed
           /\ rounds' = rounds + 1
           /\ IF LoopContinues(iter, changed)
              THEN iter' = iter + 1 /\ cpc' = "loop"
              ELSE iter' = iter /\ cpc' = "stats"
    /\ UNCHANGED <<vectorIndex, k, centers, usedIndices, result>>
    /\ UNCHANGED <<searchVars, pipelineVars, restVars>>

\* lines 413-418: the statistics and the return
Return ==
    /\ cpc = "stats"
    /\ clusters' = WithStatistics(vectorIndex.items, clusters)
    /\ result' = clusters'
    /\ cpc' = "returned"
    /\ UNCHANGED <<vectorIndex, k, centers, usedIndices, iter, rounds, changedLast>>
    /\ UNCHANGED <<searchVars, pipelineVars, restVars>>

NextCluster == Enter \/ ChooseCenter \/ InitClusters \/ Round \/ Return

SpecCluster == InitCluster /\ [][NextCluster]_vars

-----------------------------------------------------------------------------
(* Claims about performClustering *)

Returned == cpc = "returned"

NonEmptyInput == vectorIndex.defined /\ Len(vectorIndex.items) > 0

\* the places (cluster, position) of the returned members lists holding index x
PlacesOf(x) ==
    {<<c, m>> \in (1..Len(result)) \X (1..MaxEntries + 1) :
        m <= Len(result[c].members) /\ result[c].members[m] = x}

\* C5: for every non-empty entry list and every requested k, the returned
\* clusters partition the entries: each entry's positional index is in the members
\* of exactly one cluster, once, no member is foreign to the entry list, and each
\* cluster's size is the length of its members list.
C5_MembershipPartition ==
    (Returned /\ NonEmptyInput) =>
        /\ \A i \in 1..Len(vectorIndex.items) :
              Cardinality(PlacesOf(vectorIndex.items[i].index)) = 1
        /\ \A c \in 1..Len(result) :
              /\ result[c].size = Len(result[c].members)
              /\ \A m \in 1..Len(result[c].members) :
                    Find(vectorIndex.items, result[c].members[m]) # 0

\* C5 witness: a returned clustering of three entries into two clusters after
\* more than one round, one cluster holding two entries
C5_Witness ==
    /\ Returned
    /\ Len(vectorIndex.items) = 3
    /\ Len(result) = 2
    /\ rounds > 1
    /\ \E c \in 1..2 : result[c].size = 2

\* C6: performClustering returns the empty list for an empty or absent entry
\* list, and otherwise exactly min(k, number of entries) clusters.
C6_ClusterCount ==
    Returned =>
        IF NonEmptyInput
        THEN Len(result) = MinOf(k, Len(vectorIndex.items))
        ELSE result = <<>>

\* C6 witness: more clusters requested than there are entries, fewer returned
C6_Witness ==
    /\ Returned
    /\ NonEmptyInput
    /\ k > Len(vectorIndex.items)
    /\ Len(result) = Len(vectorIndex.items)

PipelineCall ==
    /\ vectorIndex.defined
    /\ LET n == Len(vectorIndex.items)
       IN  \/ /\ k = 3
              /\ \A i \in 1..n : vectorIndex.items[i].embedding # <<>>
           \/ /\ n >= 2
              /\ k = MinOf(2, (n + 1) \div 2)

\* C8: every cluster returned for an entry list the pipeline can hand to
\* performClustering has a cohesion strictly greater than 0 and at most 1.
C8_CohesionBounds ==
    (Returned /\ PipelineCall) =>
        \A c \in 1..Len(result) :
            /\ result[c].cohesion.kind = "fin"
            /\ result[c].cohesion.num > 0
            /\ result[c].cohesion.num <= result[c].cohesion.den

-----------------------------------------------------------------------------
(* buildSearchIndex as a state machine: one call on a list of enriched records *)

\* largest number of records of a corpus
MaxRecords == 2

InitSearch ==
    /\ corpus \in {[i \in 1..Len(c) |-> Enrich(c[i])] : c \in RawCorpora(MaxRecords)}
    /\ bpc = "call"
    /\ searchData = [documents |-> <<>>, embeddings |-> <<>>]
    /\ ClusterIdle
    /\ PipelineIdle
    /\ RestIdle

\* lines 213-308
BuildSearchIndex ==
    /\ bpc = "call"
    /\ searchData' = buildSearchIndex(corpus)
    /\ bpc' = "returned"
    /\ UNCHANGED <<corpus, clusterVars, pipelineVars, restVars>>

NextSearch == BuildSearchIndex

SpecSearch == InitSearch /\ [][NextSearch]_vars

-----------------------------------------------------------------------------
(* Claims about buildSearchIndex *)

SearchReturned == bpc = "returned"

\* the number of themes (quotes) of all records of a list
RECURSIVE TotalThemes(_)
TotalThemes(interviews) ==
    IF interviews = <<>> THEN 0
    ELSE Len(Head(interviews).themes) + TotalThemes(Tail(interviews))

RECURSIVE TotalQuotes(_)
TotalQuotes(interviews) ==
    IF interviews = <<>> THEN 0
    ELSE Len(Head(interviews).quotes) + TotalQuotes(Tail(interviews))

DocumentsOfType(type) ==
    {d \in 1..Len(searchData.documents) : searchData.documents[d].type = type}

\* C9: for a list of N enriched records with T themes and Q quotes in total,
\* buildSearchIndex produces exactly N + T + Q documents: N of type interview,
\* T of type theme and Q of type quote.
C9_DocumentCoverage ==
    SearchReturned =>
        /\ Len(searchData.documents) =
              Len(corpus) + TotalThemes(corpus) + TotalQuotes(corpus)
        /\ Cardinality(DocumentsOfType("interview")) = Len(corpus)
        /\ Cardinality(DocumentsOfType("theme")) = TotalThemes(corpus)
        /\ Cardinality(DocumentsOfType("quote")) = TotalQuotes(corpus)

\* C9 witness: a returned index of two records with three themes and three
\* quotes between them
C9_Witness ==
    /\ SearchReturned
    /\ Len(corpus) = 2
    /\ TotalThemes(corpus) = 3
    /\ TotalQuotes(corpus) = 3
    /\ Len(searchData.documents) = 8

\* whether the embeddings list has an entry for the document id
HasEmbeddingEntry(docId) ==
    \E e \in 1..Len(searchData.embeddings) : searchData.embeddings[e].id = docId

\* C10: buildSearchIndex puts an entry in the embeddings list for a document if
\* and only if the document's source embedding is non-empty: the record's
\* 'summary' aggregate for an interview document, the theme's or quote's own
\* embedding otherwise; no entry of the list holds an empty vector.
C10_EmbeddingIffNonEmpty ==
    SearchReturned =>
        /\ \A i \in 1..Len(corpus) :
              /\ HasEmbeddingEntry(InterviewDocId(corpus[i]))
                    <=> corpus[i].categoryEmbeddings.summary # <<>>
              /\ \A t \in 1..Len(corpus[i].themes) :
                    HasEmbeddingEntry(ThemeDocId(corpus[i], corpus[i].themes[t]))
                        <=> corpus[i].themes[t].embedding # <<>>
              /\ \A q \in 1..Len(corpus[i].quotes) :
                    HasEmbeddingEntry(QuoteDocId(corpus[i], corpus[i].quotes[q]))
                        <=> corpus[i].quotes[q].embedding # <<>>
        /\ \A e \in 1..Len(searchData.embeddings) :
              searchData.embeddings[e].embedding # <<>>

-----------------------------------------------------------------------------
(* The pipeline driver: main and its processInterview tasks                 *)
(*                                                                           *)
(* main starts one processInterview call per file (line 463) and awaits them *)
(* all; the calls run on one thread and interleave at their awaits.  A step  *)
(* of a task is the code it runs between two awaits on which it can be       *)
(* overtaken in a way that shows: the end of fs.readFile, the end of the     *)
(* model load, the end of a model inference.  A generateEmbedding call on a  *)
(* blank text returns [] without touching shared state and is run through in *)
(* the step that reaches it.                                                 *)

\* largest number of input files
MaxFiles == 3

\* the content of the input file at position f: not JSON, JSON that fails the
\* schema, or a valid record
Malformed == [kind |-> "malformed", data |-> <<>>]

Invalid == [kind |-> "invalid", data |-> <<>>]

Valid(record) == [kind |-> "valid", data |-> record]

FileContents(f) ==
    { Malformed, Invalid,
      Valid(Record(f, <<>>, <<>>, <<Quote(1, <<"b">>, <<"growth">>)>>)),
      Valid(Record(f, <<>>, <<>>, <<Quote(1, SP, <<"growth">>)>>)) }

RECURSIVE FileListsOfLen(_)
FileListsOfLen(m) ==
    IF m = 0 THEN {<<>>}
    ELSE {Append(l, c) : l \in FileListsOfLen(m - 1), c \in FileContents(m)}

\* the value of a promise that has not settled, and the shapes of the values
\* processInterview settles with; file is the position of the file in jsonFiles
Pending ==
    [settled |-> "pending", success |-> FALSE, hasData |-> FALSE, data |-> <<>>,
     file |-> 0, error |-> "", errors |-> 0]

\* JSON.parse(content) throws outside the try block (line 41): the promise of
\* processInterview rejects
ParseRejection(f) ==
    [settled |-> "rejected", success |-> FALSE, hasData |-> FALSE, data |-> <<>>,
     file |-> f, error |-> "SyntaxError", errors |-> 0]

\* mutant of ValidationFailure: validate.errors is read after a later call of
\* validate on a valid record has reset it to null
ValidationFailureStaleErrors(f, errors) ==
    [settled |-> "resolved", success |-> FALSE, hasData |-> FALSE, data |-> <<>>,
     file |-> f, error |-> "", errors |-> 0]

\* return { success: false, errors: validate.errors, file: filePath }
ValidationFailure(f, errors) ==
    [settled |-> "resolved", success |-> FALSE, hasData |-> FALSE, data |-> <<>>,
     file |-> f, error |-> "", errors |-> errors]

\* return { success: true, data, file: filePath }
Success(f, data) ==
    [settled |-> "resolved", success |-> TRUE, hasData |-> TRUE, data |-> data,
     file |-> f, error |-> "", errors |-> 0]

\* mutant of CatchResult: the failure of an embedding call is not caught
CatchResultUncaught(f, message) ==
    [settled |-> "rejected", success |-> FALSE, hasData |-> FALSE, data |-> <<>>,
     file |-> f, error |-> message, errors |-> 0]

\* catch (error) { return { success: false, error: error.message, file: filePath } }
CatchResult(f, message) ==
    [settled |-> "resolved", success |-> FALSE, hasData |-> FALSE, data |-> <<>>,
     file |-> f, error |-> message, errors |-> 0]

\* the errors the validator reports for the file at position f
ErrorsOf(f) == f

\* the vectors of the calls from position call on that are made on a blank
\* text: each returns [] at once (line 29)
RECURSIVE BlankRun(_, _)
BlankRun(texts, call) ==
    IF call <= Len(texts) /\ IsBlank(texts[call])
    THEN <<<<>>>> \o BlankRun(texts, call + 1)
    ELSE <<>>

\* A task runs from its call number `call` (the calls before it returned vecs)
\* up to the next await on the model: through the calls on blank texts, then
\* either to its return (no call left), or into generateEmbedding on a non-blank
\* text, where getEmbedder starts the model load if embedder is null (line 21)
\* and the model is called otherwise (line 32).
RunTask(f, data, call, vecs, emb) ==
    LET texts == EmbedTexts(data)
        vecs2 == vecs \o BlankRun(texts, call)
        call2 == Len(vecs2) + 1
    IN  IF call2 > Len(texts)
        THEN [pc |-> "settled", call |-> call2, vecs |-> vecs2, failedCall |-> 0,
              result |-> Success(f, Enriched(data, vecs2))]
        ELSE [pc |-> IF emb = "null" THEN "awaitLoad" ELSE "awaitModel",
              call |-> call2, vecs |-> vecs2, failedCall |-> 0, result |-> Pending]

\* a task whose embedding call number call failed with message
FailTask(f, t, message) ==
    [pc |-> "settled", call |-> t.call, vecs |-> t.vecs, failedCall |-> t.call,
     result |-> CatchResult(f, message)]

InitPipeline ==
    /\ files \in UNION {FileListsOfLen(m) : m \in 1..MaxFiles}
    /\ task = [f \in 1..Len(files) |->
                 [pc |-> "readFile", call |-> 1, vecs |-> <<>>, failedCall |-> 0,
                  result |-> Pending]]
    /\ embedder = "null"
    /\ loadsStarted = 0
    /\ validateErrors = 0
    /\ mpc = "awaitAll"
    /\ built = <<>>
    /\ written = <<>>
    /\ exitCode = -1
    /\ ClusterIdle
    /\ SearchIdle
    /\ RestIdle

\* lines 40-48 and on to the first await on the model: the file is read,
\* parsed and validated
ReadDone(f) ==
    /\ task[f].pc = "readFile"
    /\ \/ /\ files[f].kind = "malformed"
          /\ task' = [task EXCEPT ![f].pc = "settled", ![f].result = ParseRejection(f)]
          /\ UNCHANGED <<validateErrors, loadsStarted>>
       \/ /\ files[f].kind = "invalid"
          /\ validateErrors' = ErrorsOf(f)
          /\ task' = [task EXCEPT ![f].pc = "settled",
                                  ![f].result = ValidationFailure(f, validateErrors')]
          /\ UNCHANGED loadsStarted
       \/ /\ files[f].kind = "valid"
          /\ validateErrors' = 0
          /\ task' = [task EXCEPT ![f] = RunTask(f, files[f].data, 1, <<>>, embedder)]
          /\ loadsStarted' = loadsStarted + (IF task'[f].pc = "awaitLoad" THEN 1 ELSE 0)
    /\ UNCHANGED <<files, embedder, mpc, built, written, exitCode>>
    /\ UNCHANGED <<clusterVars, searchVars, restVars>>

\* line 22: the model load a task started ends; on success the task assigns
\* embedder and calls the model (line 32), on failure the error is caught
LoadDone(f) ==
    /\ task[f].pc = "awaitLoad"
    /\ \/ /\ embedder' = "model"
          /\ task' = [task EXCEPT ![f].pc = "awaitModel"]
       \/ /\ task' = [task EXCEPT ![f] = FailTask(f, task[f], "load failed")]
          /\ UNCHANGED embedder
    /\ UNCHANGED <<files, loadsStarted, validateErrors, mpc, built, written, exitCode>>
    /\ UNCHANGED <<clusterVars, searchVars, restVars>>

\* lines 32-33: a model inference ends; on success the task goes on to its next
\* await, on failure the error is caught
ModelDone(f) ==
    /\ task[f].pc = "awaitModel"
    /\ \/ LET texts == EmbedTexts(files[f].data)
              vecs == Append(task[f].vecs, ModelOutput(texts[task[f].call]))
          IN  task' = [task EXCEPT
                         ![f] = RunTask(f, files[f].data, task[f].call + 1, vecs, embedder)]
       \/ task' = [task EXCEPT ![f] = FailTask(f, task[f], "inference failed")]
    /\ UNCHANGED <<files, embedder, loadsStarted, validateErrors, mpc, built,
                   written, exitCode>>
    /\ UNCHANGED <<clusterVars, searchVars, restVars>>

\* the values the tasks settled with, in file order (the array Promise.all
\* resolves to)
Results == [f \in 1..Len(files) |-> task[f].result]

AllSettled == \A f \in 1..Len(files) : task[f].pc = "settled"

RECURSIVE FilterSuccess(_, _)
FilterSuccess(results, wanted) ==
    IF results = <<>> THEN <<>>
    ELSE (IF Head(results).success = wanted THEN <<Head(results)>> ELSE <<>>)
         \o FilterSuccess(Tail(results), wanted)

\* const successful = results.filter(r => r.success)
Successful(results) == FilterSuccess(results, TRUE)

\* mutant of Failed: the results are not filtered
FailedUnfiltered(results) == results

\* const failed = results.filter(r => !r.success)
Failed(results) == FilterSuccess(results, FALSE)

\* Math.floor(Math.random() * n), as a position, Math.random() being rnd/RandomDen
FirstIdx(n, rnd) == (rnd * n) \div RandomDen + 1

\* performClustering as main calls it, every Math.random() of the run
\* returning rnd/RandomDen
ClusteringOf(entries, kk, rnd) ==
    performClustering(entries, kk, FirstIdx(Len(entries), rnd), rnd)

\* mutant of TagK: two clusters are requested whatever the size of the set
TagKAlwaysTwo(n) == 2

\* Math.min(2, Math.ceil(n / 2))
TagK(n) == MinOf(2, (n + 1) \div 2)

\* lines 494-501: the clusterings of the tag sets of at least 2 entries
RECURSIVE TagClusterings(_, _)
TagClusterings(tagSets, rnd) ==
    IF tagSets = <<>> THEN <<>>
    ELSE (IF Len(Head(tagSets).entries) >= 2
          THEN <<[tag |-> Head(tagSets).tag,
                  clusters |-> ClusteringOf(Head(tagSets).entries,
                                            TagK(Len(Head(tagSets).entries)), rnd)]>>
          ELSE <<>>)
         \o TagClusterings(Tail(tagSets), rnd)

\* lines 465-505: main's locals once Promise.all has resolved to results
Build(results, rnd) ==
    LET successful == Successful(results)
        interviews == [i \in 1..Len(successful) |-> successful[i].data]
        vectorIndices == buildVectorIndices(interviews)
    IN  [successful |-> successful,
         failed |-> Failed(results),
         interviews |-> interviews,
         vectorIndices |-> vectorIndices,
         clusteringResults |->
             [summary |-> ClusteringOf(vectorIndices.summary, 3, rnd),
              themes |-> ClusteringOf(vectorIndices.themes, 3, rnd),
              collegeExperience |-> ClusteringOf(vectorIndices.collegeExperience, 3, rnd),
              quotes |-> ClusteringOf(vectorIndices.quotes, 3, rnd),
              tags |-> TagClusterings(vectorIndices.tags, rnd)],
         searchData |-> buildSearchIndex(interviews)]

\* lines 535-544: the manifest
Manifest(b) ==
    [totalInterviews |-> Len(b.interviews),
     failedFiles |-> Len(b.failed),
     clusterTypes |-> <<"summary", "themes", "collegeExperience", "quotes", "tags">>,
     searchDocuments |-> Len(b.searchData.documents),
     embeddingDimension |-> 384,
     tags |-> [j \in 1..Len(b.vectorIndices.tags) |-> b.vectorIndices.tags[j].tag]]

\* lines 508-545: the five artifacts in the order they are written
Artifacts(b) ==
    << [name |-> "interviews.json", content |-> b.interviews],
       [name |-> "vector-indices.json", content |-> b.vectorIndices],
       [name |-> "clusters.json", content |-> b.clusteringResults],
       [name |-> "search-index.json", content |-> b.searchData],
       [name |-> "metadata.json", content |-> Manifest(b)] >>

\* the exit status of the process: the code sets none (no process.exit, no
\* process.exitCode), and a rejection of main is handled by catch(console.error)
ExitStatus(failedCount, aborted) == 0

\* mutant of AllResolved: main goes on as soon as one task has resolved
AllResolvedSomeOne(results) ==
    \E f \in 1..Len(results) : results[f].settled = "resolved"

\* await Promise.all(...) (line 463) resolves once every task has resolved
AllResolved(results) ==
    \A f \in 1..Len(results) : results[f].settled = "resolved"

\* line 463: Promise.all resolves once every task has resolved; lines 465-505
MainBuild ==
    /\ mpc = "awaitAll"
    /\ AllResolved(Results)
    /\ \E rnd \in 0..(RandomDen - 1) : built' = Build(Results, rnd)
    /\ mpc' = "writing"
    /\ UNCHANGED <<files, task, embedder, loadsStarted, validateErrors, written, exitCode>>
    /\ UNCHANGED <<clusterVars, searchVars, restVars>>

\* line 463: Promise.all rejects as soon as one task has rejected; main rejects
\* and line 550 logs the error
MainReject ==
    /\ mpc = "awaitAll"
    /\ \E f \in 1..Len(files) : task[f].result.settled = "rejected"
    /\ mpc' = "aborted"
    /\ UNCHANGED <<files, task, embedder, loadsStarted, validateErrors, built,
                   written, exitCode>>
    /\ UNCHANGED <<clusterVars, searchVars, restVars>>

\* lines 508-545: one await fs.writeFile(...)
WriteArtifact ==
    /\ mpc = "writing"
    /\ written' = Append(written, Artifacts(built)[Len(written) + 1])
    /\ mpc' = IF Len(written') = Len(Artifacts(built)) THEN "done" ELSE "writing"
    /\ UNCHANGED <<files, task, embedder, loadsStarted, validateErrors, built, exitCode>>
    /\ UNCHANGED <<clusterVars, searchVars, restVars>>

\* the process ends once main has ended and no task is pending
Exit ==
    /\ mpc \in {"done", "aborted"}
    /\ AllSettled
    /\ exitCode = -1
    /\ exitCode' = ExitStatus(IF mpc = "done" THEN Len(built.failed) ELSE 0,
                              mpc = "aborted")
    /\ UNCHANGED <<files, task, embedder, loadsStarted, validateErrors, mpc, built,
                   written>>
    /\ UNCHANGED <<clusterVars, searchVars, restVars>>

NextPipeline ==
    \/ \E f \in 1..Len(files) : ReadDone(f)
    \/ \E f \in 1..Len(files) : LoadDone(f)
    \/ \E f \in 1..Len(files) : ModelDone(f)
    \/ MainBuild
    \/ MainReject
    \/ WriteArtifact
    \/ Exit

SpecPipeline == InitPipeline /\ [][NextPipeline]_vars

-----------------------------------------------------------------------------
(* Claims about the pipeline driver *)

FileIds == 1..Len(files)

\* the process has ended
Exited == exitCode # -1

\* main has computed its derived structures
HasBuilt == mpc \in {"writing", "done"}

\* the interviewId of the record of the file at position f
RecordIdOf(f) == <<"r", Digits[f]>>

\* the content of the written artifact of that name, if it has been written
IsWritten(name) == \E w \in 1..Len(written) : written[w].name = name

ContentOf(name) ==
    written[CHOOSE w \in 1..Len(written) : written[w].name = name].content

EntryIds(entries) == {entries[e].id : e \in 1..Len(entries)}

\* the records the members of a cluster list stand for: positions in interviews
ClusterMemberIds(cls, interviews) ==
    UNION {{interviews[cls[c].members[m] + 1].interviewId :
              m \in 1..Len(cls[c].members)} : c \in 1..Len(cls)}

\* the ids of the records that an artifact of the build b holds or refers to
ArtifactRecordIds(b) ==
    {b.interviews[i].interviewId : i \in 1..Len(b.interviews)}
    \cup EntryIds(b.vectorIndices.summary) \cup EntryIds(b.vectorIndices.themes)
    \cup EntryIds(b.vectorIndices.collegeExperience) \cup EntryIds(b.vectorIndices.quotes)
    \cup UNION {EntryIds(b.vectorIndices.tags[j].entries) :
                  j \in 1..Len(b.vectorIndices.tags)}
    \cup ClusterMemberIds(b.clusteringResults.summary, b.interviews)
    \cup ClusterMemberIds(b.clusteringResults.themes, b.interviews)
    \cup ClusterMemberIds(b.clusteringResults.collegeExperience, b.interviews)
    \cup ClusterMemberIds(b.clusteringResults.quotes, b.interviews)
    \cup UNION {ClusterMemberIds(b.clusteringResults.tags[j].clusters, b.interviews) :
                  j \in 1..Len(b.clusteringResults.tags)}
    \cup {b.searchData.documents[d].interviewId : d \in 1..Len(b.searchData.documents)}

MalformedFiles == {f \in FileIds : files[f].kind = "malformed"}

ValidFiles == {f \in FileIds : files[f].kind = "valid"}

\* the files whose processing failed: the task rejected or resolved to a failure
FailedFiles == {f \in FileIds : task[f].pc = "settled" /\ ~task[f].result.success}

\* the files one of whose embedding calls failed
EmbeddingFailedFiles == {f \in FileIds : task[f].failedCall # 0}

\* C1: when exactly one input file is malformed JSON and the others are valid
\* (and no embedding call fails), the run still completes and writes the
\* manifest with totalInterviews = the number of valid files and
\* failedFiles = 1, every artifact being built from the valid records only.
C1_MalformedFileIsolated ==
    ( /\ Exited
      /\ Cardinality(MalformedFiles) = 1
      /\ MalformedFiles \cup ValidFiles = FileIds
      /\ ValidFiles # {}
      /\ EmbeddingFailedFiles = {} )
    =>  /\ Len(written) = 5
        /\ IsWritten("metadata.json")
        /\ ContentOf("metadata.json").totalInterviews = Cardinality(ValidFiles)
        /\ ContentOf("metadata.json").failedFiles = 1
        /\ ArtifactRecordIds(built) = {RecordIdOf(f) : f \in ValidFiles}

\* C2: under any interleaving of the concurrent generateEmbedding calls, the
\* model load pipeline(...) is started at most once per process.
C2_SingleModelLoad == loadsStarted <= 1

\* C3: if an embedding call made while enriching a file fails, the file's
\* result is a failure carrying the file name and the error message and no
\* record data, the record is in none of the downstream artifacts, and the rest
\* of the batch goes on: the failure never makes main abort (main aborts only on
\* a file that is not JSON), and a run without such a file ends with all five
\* artifacts written.
C3_EmbeddingFailureIsolated ==
    /\ \A f \in EmbeddingFailedFiles :
          /\ task[f].result.settled = "resolved"
          /\ ~task[f].result.success
          /\ ~task[f].result.hasData
          /\ task[f].result.file = f
          /\ task[f].result.error \in {"load failed", "inference failed"}
          /\ HasBuilt => RecordIdOf(f) \notin ArtifactRecordIds(built)
          /\ HasBuilt => \A w \in 1..Len(written) :
                            written[w] = Artifacts(built)[w]
    /\ mpc = "aborted" => MalformedFiles # {}
    /\ (Exited /\ MalformedFiles = {}) => Len(written) = 5

\* C3 witness: a run that ended with all artifacts written, one file having
\* failed on an embedding call and another having been enriched
C3_Witness ==
    /\ Exited
    /\ mpc = "done"
    /\ EmbeddingFailedFiles # {}
    /\ \E g \in FileIds : task[g].result.success /\ task[g].vecs # <<>>
                          /\ \E v \in 1..Len(task[g].vecs) : task[g].vecs[v] # <<>>
    /\ Len(written) = 5
    /\ ContentOf("metadata.json").failedFiles >= 1
    /\ ContentOf("metadata.json").totalInterviews >= 1

\* C4: whenever at least one input file fails validation or embedding, the
\* driver still writes all artifacts for the successful records and then ends
\* with a non-zero exit status; it ends with status zero only when no file
\* failed.
C4_ExitStatusReflectsFailure ==
    (Exited /\ MalformedFiles = {}) =>
        /\ Len(written) = 5
        /\ exitCode = 0 <=> FailedFiles = {}

-----------------------------------------------------------------------------
(* buildVectorIndices as a state machine: one call on the records that       *)
(* processInterview returned (main, line 481)                                *)

InitIndex ==
    /\ indexInput \in {[i \in 1..Len(c) |-> Enrich(c[i])] : c \in RawCorpora(MaxRecords)}
    /\ ipc = "call"
    /\ indices = <<>>
    /\ ClusterIdle
    /\ SearchIdle
    /\ PipelineIdle
    /\ EnrichIdle
    /\ EmbedIdle
    /\ SemanticIdle
    /\ FullTestIdle

\* lines 139-210
BuildVectorIndices ==
    /\ ipc = "call"
    /\ indices' = buildVectorIndices(indexInput)
    /\ ipc' = "returned"
    /\ UNCHANGED <<indexInput, clusterVars, searchVars, pipelineVars, enrichVars, embedVars, semanticVars,
                   fullTestVars>>

NextIndex == BuildVectorIndices

SpecIndex == InitIndex /\ [][NextIndex]_vars

-----------------------------------------------------------------------------
(* Claims about buildVectorIndices *)

IndexReturned == ipc = "returned"

FixedSetNames == {"summary", "themes", "collegeExperience", "quotes"}

\* the fixed set of that name in the returned indices
FixedSet(name) ==
    CASE name = "summary" -> indices.summary
      [] name = "themes" -> indices.themes
      [] name = "collegeExperience" -> indices.collegeExperience
      [] name = "quotes" -> indices.quotes

\* the positions (1-based) of the records whose aggregate of that name is
\* non-empty
NonEmptyPositions(name) ==
    {i \in 1..Len(indexInput) : CategoryEmbedding(indexInput[i], name) # <<>>}

\* C11: each of the four fixed sets is exactly the subsequence, in input record
\* order, of the records whose aggregate embedding of that category is
\* non-empty, each entry carrying the record's id, its position in the input
\* list and that embedding; a record without quotes has no entry in 'quotes'.
C11_FixedSetsAreSubsequences ==
    IndexReturned =>
        \A name \in FixedSetNames :
            LET set == FixedSet(name)
            IN  /\ Len(set) = Cardinality(NonEmptyPositions(name))
                /\ \A e \in 1..Len(set) :
                      /\ set[e].index + 1 \in NonEmptyPositions(name)
                      /\ set[e].id = indexInput[set[e].index + 1].interviewId
                      /\ set[e].embedding =
                            CategoryEmbedding(indexInput[set[e].index + 1], name)
                /\ \A e1, e2 \in 1..Len(set) :
                      e1 < e2 => set[e1].index < set[e2].index
                /\ \A i \in 1..Len(indexInput) :
                      (name = "quotes" /\ indexInput[i].quotes = <<>>) =>
                          \A e \in 1..Len(set) : set[e].index # i - 1

\* C11 witness: two records, the first without quotes and the second with a
\* non-blank quote, so that the 'quotes' set holds the second record only
C11_Witness ==
    /\ IndexReturned
    /\ Len(indexInput) = 2
    /\ indexInput[1].quotes = <<>>
    /\ Len(indices.quotes) = 1
    /\ indices.quotes[1].index = 1
    /\ Len(indices.summary) = 2

\* C12: every entry of every tag set has a non-empty embedding.
C12_TagEntriesNonEmpty ==
    IndexReturned =>
        \A j \in 1..Len(indices.tags) :
            \A e \in 1..Len(indices.tags[j].entries) :
                indices.tags[j].entries[e].embedding # <<>>

\* the tags the returned indices hold a set for
TagSetKeys == {indices.tags[j].tag : j \in 1..Len(indices.tags)}

\* the tags field of the manifest main writes for these indices (line 543)
ManifestTags == Range(Manifest([interviews |-> indexInput, failed |-> <<>>,
                                searchData |-> [documents |-> <<>>],
                                vectorIndices |-> indices]).tags)

\* C13: for every tag on a quote of an enriched record the indices hold a set,
\* and the manifest's tags field is exactly the union of the tags of the corpus.
C13_TagUniverse ==
    IndexReturned =>
        /\ \A tag \in Range(AllTags(indexInput)) : tag \in TagSetKeys
        /\ ManifestTags = Range(AllTags(indexInput))

-----------------------------------------------------------------------------
(* processInterview run twice on one record: the record the first run       *)
(* returned is handed to a second run (no embedding call fails)             *)

TimelinePoint(text, embedding) == [eventDescription |-> text, embedding |-> embedding]

Area(title, description) ==
    [title |-> title, description |-> description, embedding |-> <<>>]

TimelineOptions ==
    { <<>>,
      <<TimelinePoint(<<"a", "b">>, <<>>), TimelinePoint(SP, <<>>),
        TimelinePoint(<<"a">>, <<2, 2>>)>> }

AreaOptions ==
    { <<>>,
      <<Area(<<"b">>, <<>>)>> }

\* the parsed, schema-valid records handed to the first run
EnrichInputs ==
    {[r EXCEPT !.timelinePoints = tl, !.areasForImprovement = ar] :
        r \in RawRecords(1), tl \in TimelineOptions, ar \in AreaOptions}

InitEnrich ==
    /\ enrichData \in EnrichInputs
    /\ epc = "first"
    /\ enrichCalls = <<>>
    /\ firstRun = <<>>
    /\ ClusterIdle
    /\ SearchIdle
    /\ PipelineIdle
    /\ IndexIdle
    /\ EmbedIdle
    /\ SemanticIdle
    /\ FullTestIdle

\* lines 51-131: one run of the try block of processInterview on enrichData
ProcessInterview ==
    /\ epc \in {"first", "second"}
    /\ enrichCalls' =
          [c \in 1..Len(EmbedTexts(enrichData)) |->
              [target |-> EmbedTargets(enrichData)[c],
               text |-> EmbedTexts(enrichData)[c]]]
    /\ enrichData' = Enrich(enrichData)
    /\ firstRun' = IF epc = "first" THEN enrichData' ELSE firstRun
    /\ epc' = IF epc = "first" THEN "second" ELSE "done"
    /\ UNCHANGED <<clusterVars, searchVars, pipelineVars, indexVars, embedVars, semanticVars,
                   fullTestVars>>

NextEnrich == ProcessInterview

SpecEnrich == InitEnrich /\ [][NextEnrich]_vars

-----------------------------------------------------------------------------
(* Claims about processInterview *)

SecondRunDone == epc = "done"

ItemSections ==
    {"summaries", "themes", "quotes", "timelinePoints", "areasForImprovement"}

\* the items of a section of a record
SectionOf(record, section) ==
    CASE section = "summaries" -> record.summaries
      [] section = "themes" -> record.themes
      [] section = "quotes" -> record.quotes
      [] section = "timelinePoints" -> record.timelinePoints
      [] section = "areasForImprovement" -> record.areasForImprovement

\* C14: the second run on an enriched record makes no embedding call for a
\* summary, theme, quote, timeline point or improvement area that carries a
\* non-empty embedding, and leaves every embedding of the record, the
\* categoryEmbeddings and tagEmbeddings included, as the first run left it.
C14_EnrichIdempotent ==
    SecondRunDone =>
        /\ \A c \in 1..Len(enrichCalls) :
              enrichCalls[c].target.section \in ItemSections =>
                  SectionOf(firstRun, enrichCalls[c].target.section)
                      [enrichCalls[c].target.pos].embedding = <<>>
        /\ enrichData = firstRun

\* C14 witness: a second run on a record whose first run embedded a quote and a
\* timeline point, one theme having come with an embedding of its own
C14_Witness ==
    /\ SecondRunDone
    /\ Len(firstRun.quotes) >= 1 /\ firstRun.quotes[1].embedding # <<>>
    /\ Len(firstRun.timelinePoints) = 3
    /\ firstRun.timelinePoints[1].embedding = <<1, 1>>
    /\ firstRun.timelinePoints[2].embedding = <<>>
    /\ Len(firstRun.themes) = 2 /\ firstRun.themes[1].embedding = <<1, 1>>
    /\ firstRun.tagEmbeddings # <<>>
    /\ Len(enrichCalls) > 4

-----------------------------------------------------------------------------
(* generateEmbedding(text) as a state machine: one call, suspended at its    *)
(* awaits on the model load and on the model                                 *)

\* largest length of a text handed to generateEmbedding
MaxTextLen == 3

Chars == {" ", "a", "b"}

\* the arguments: an absent text (undefined, null) or a text
TextArguments ==
    {[present |-> FALSE, chars |-> <<>>]}
    \cup {[present |-> TRUE, chars |-> t] :
            t \in UNION {[1..n -> Chars] : n \in 0..MaxTextLen}}

InitEmbed ==
    /\ argText \in TextArguments
    /\ gpc = "call"
    /\ embedValue = <<>>
    /\ modelLoaded \in BOOLEAN
    /\ modelLoads = 0
    /\ modelCalls = 0
    /\ ClusterIdle
    /\ SearchIdle
    /\ PipelineIdle
    /\ IndexIdle
    /\ EnrichIdle
    /\ SemanticIdle
    /\ FullTestIdle

\* lines 29-32 and 21-22: the early return, or up to the first await
GenerateEmbedding ==
    /\ gpc = "call"
    /\ IF ~argText.present \/ IsBlank(argText.chars)
       THEN /\ gpc' = "returned"
            /\ embedValue' = <<>>
            /\ UNCHANGED <<modelLoads, modelCalls>>
       ELSE IF ~modelLoaded
       THEN /\ gpc' = "awaitLoad"
            /\ modelLoads' = modelLoads + 1
            /\ UNCHANGED <<embedValue, modelCalls>>
       ELSE /\ gpc' = "awaitModel"
            /\ modelCalls' = modelCalls + 1
            /\ UNCHANGED <<embedValue, modelLoads>>
    /\ UNCHANGED <<argText, modelLoaded>>
    /\ UNCHANGED <<clusterVars, searchVars, pipelineVars, indexVars, enrichVars, semanticVars,
                   fullTestVars>>

\* line 22: pipeline(...) settles; on success the model is called (line 32)
EmbedLoadSettles ==
    /\ gpc = "awaitLoad"
    /\ \/ /\ modelLoaded' = TRUE
          /\ gpc' = "awaitModel"
          /\ modelCalls' = modelCalls + 1
       \/ /\ gpc' = "thrown"
          /\ UNCHANGED <<modelLoaded, modelCalls>>
    /\ UNCHANGED <<argText, embedValue, modelLoads>>
    /\ UNCHANGED <<clusterVars, searchVars, pipelineVars, indexVars, enrichVars, semanticVars,
                   fullTestVars>>

\* lines 32-33: model(text, ...) settles
EmbedModelSettles ==
    /\ gpc = "awaitModel"
    /\ \/ /\ gpc' = "returned"
          /\ embedValue' = ModelOutput(argText.chars)
       \/ /\ gpc' = "thrown"
          /\ UNCHANGED embedValue
    /\ UNCHANGED <<argText, modelLoaded, modelLoads, modelCalls>>
    /\ UNCHANGED <<clusterVars, searchVars, pipelineVars, indexVars, enrichVars, semanticVars,
                   fullTestVars>>

NextEmbed == GenerateEmbedding \/ EmbedLoadSettles \/ EmbedModelSettles

SpecEmbed == InitEmbed /\ [][NextEmbed]_vars

-----------------------------------------------------------------------------
(* Claims about generateEmbedding *)

\* the argument is absent, empty or whitespace-only
BlankArgument ==
    ~argText.present \/ \A i \in 1..Len(argText.chars) : argText.chars[i] = " "

\* C15: for an empty, whitespace-only or absent text generateEmbedding returns
\* the empty vector, without loading or calling the model, and never throws.
C15_BlankTextEmptyVector ==
    (BlankArgument /\ gpc # "call") =>
        /\ gpc = "returned"
        /\ embedValue = <<>>
        /\ modelLoads = 0
        /\ modelCalls = 0

\* C15 witness: a call on a whitespace-only text of two characters has
\* returned while the model was not loaded
C15_Witness ==
    /\ gpc = "returned"
    /\ argText.present
    /\ Len(argText.chars) >= 2
    /\ BlankArgument
    /\ ~modelLoaded
    /\ embedValue = <<>>

-----------------------------------------------------------------------------
(* performSemanticSearch (src/components/SearchPanel.jsx)                    *)
(*                                                                           *)
(* A similarity is carried as the fraction num/den, den > 0, equal to the    *)
(* cosine squared with the sign of the dot product: it orders as the cosine  *)
(* does, and cosine > 0.3 iff num > 0 and num/den > 9/100.                   *)

\* .slice(0, 50)
MaxResults == 50

\* the sum of a[i] * b[i]
RECURSIVE Dot(_, _)
Dot(a, b) ==
    IF a = <<>> THEN 0 ELSE Head(a) * Head(b) + Dot(Tail(a), Tail(b))

\* cosineSimilarity(a, b), lines 65-80
cosineSimilarity(a, b) ==
    IF Len(a) # Len(b) THEN [num |-> 0, den |-> 1]
    ELSE IF Dot(a, a) = 0 \/ Dot(b, b) = 0 THEN [num |-> 0, den |-> 1]
    ELSE [num |-> (IF Dot(a, b) < 0 THEN -1 ELSE 1) * Dot(a, b) * Dot(a, b),
          den |-> Dot(a, a) * Dot(b, b)]

\* x < y for similarities
SimLess(x, y) == x.num * y.den < y.num * x.den

\* item.similarity > 0.3
AboveThreshold(x) == x.num > 0 /\ 100 * x.num > 9 * x.den

\* embeddings.map(item => ({...item, similarity: cosineSimilarity(...)}))
Similarities(query, items) ==
    [i \in 1..Len(items) |->
        [id |-> items[i].id, embedding |-> items[i].embedding,
         similarity |-> cosineSimilarity(query, items[i].embedding)]]

\* the sorted list acc with x put after the items that do not compare below it
RECURSIVE InsertSorted(_, _)
InsertSorted(acc, x) ==
    IF acc = <<>> THEN <<x>>
    ELSE IF SimLess(Head(acc).similarity, x.similarity) THEN <<x>> \o acc
    ELSE <<Head(acc)>> \o InsertSorted(Tail(acc), x)

RECURSIVE SortFrom(_, _, _)
SortFrom(items, i, acc) ==
    IF i > Len(items) THEN acc ELSE SortFrom(items, i + 1, InsertSorted(acc, items[i]))

\* mutant of SortBySimilarity: the list is left in candidate order
SortBySimilarityUnsorted(items) == items

\* .sort((a, b) => b.similarity - a.similarity): a stable sort, descending
SortBySimilarity(items) == SortFrom(items, 1, <<>>)

\* .filter(item => item.similarity > 0.3)
RECURSIVE FilterAbove(_)
FilterAbove(items) ==
    IF items = <<>> THEN <<>>
    ELSE (IF AboveThreshold(Head(items).similarity) THEN <<Head(items)>> ELSE <<>>)
         \o FilterAbove(Tail(items))

\* lines 118-126: const topResults
TopResults(query, items) ==
    LET sorted == SortBySimilarity(Similarities(query, items))
    IN  FilterAbove(SubSeq(sorted, 1, MinOf(MaxResults, Len(sorted))))

\* largest number of candidates in the embeddings list
MaxCandidates == 64

\* the candidate embeddings: the empty vector, 2-dimensional ones on all sides
\* of the threshold, and 4-dimensional ones, <<3, 9, 3, 1>> being at cosine
\* 0.3 exactly from <<1, 0, 0, 0>>
CandidateVectors ==
    << <<1, 0>>, <<3, 1>>, <<1, 3>>, <<1, 1>>, <<1, 4>>, <<>>, <<-1, 0>>,
       <<0, 1>>, <<0, 0>>, <<3, 9, 3, 1>>, <<1, 1, 0, 0>> >>

QueryVectors == {<<1, 0>>, <<1, 1>>, <<1, 0, 0, 0>>}

\* the candidate lists: n entries that cycle through a window of CandidateVectors
\* (one vector repeated, five vectors, or all) starting at some offset
CandidateLists ==
    {[i \in 1..n |->
         [id |-> i,
          embedding |-> CandidateVectors[
              ((offset + ((i - 1) % window)) % Len(CandidateVectors)) + 1]]] :
       n \in 0..MaxCandidates, window \in {1, 5, Len(CandidateVectors)},
       offset \in 0..(Len(CandidateVectors) - 1)}

InitSemantic ==
    /\ queryEmbedding \in QueryVectors
    /\ semEmbeddings \in CandidateLists
    /\ spc = "call"
    /\ topResults = <<>>
    /\ ClusterIdle
    /\ SearchIdle
    /\ PipelineIdle
    /\ IndexIdle
    /\ EnrichIdle
    /\ EmbedIdle
    /\ FullTestIdle

\* lines 118-126
PerformSemanticSearch ==
    /\ spc = "call"
    /\ topResults' = TopResults(queryEmbedding, semEmbeddings)
    /\ spc' = "returned"
    /\ UNCHANGED <<queryEmbedding, semEmbeddings>>
    /\ UNCHANGED <<clusterVars, searchVars, pipelineVars, indexVars, enrichVars, embedVars,
                   fullTestVars>>

NextSemantic == PerformSemanticSearch

SpecSemantic == InitSemantic /\ [][NextSemantic]_vars

-----------------------------------------------------------------------------
(* Claims about performSemanticSearch *)

SemanticReturned == spc = "returned"

\* the similarity of candidate i to the query
SimilarityOf(i) == cosineSimilarity(queryEmbedding, semEmbeddings[i].embedding)

\* the candidates whose similarity is above 0.3
Qualifying == {i \in 1..Len(semEmbeddings) : AboveThreshold(SimilarityOf(i))}

ResultIds == {topResults[r].id : r \in 1..Len(topResults)}

\* no result at or below 0.3, at most 50 results, each a candidate with its own
\* similarity and none listed twice, and the results are the best qualifying
\* candidates
ThresholdCapAndBest ==
    /\ Len(topResults) <= 50
    /\ Cardinality(ResultIds) = Len(topResults)
    /\ ResultIds \subseteq Qualifying
    /\ \A r \in 1..Len(topResults) :
          topResults[r].similarity = SimilarityOf(topResults[r].id)
    /\ Len(topResults) = MinOf(50, Cardinality(Qualifying))
    /\ \A i \in Qualifying \ ResultIds :
          \A r \in 1..Len(topResults) :
              ~SimLess(topResults[r].similarity, SimilarityOf(i))

\* C16, as amended: the result holds no entry with similarity <= 0.3, at most 50
\* entries, the highest-similarity qualifying candidates, and is sorted in
\* non-increasing order of similarity (entries of equal similarity are kept, in
\* candidate order).
C16_SemanticResultNonIncreasing ==
    SemanticReturned =>
        /\ ThresholdCapAndBest
        /\ \A r \in 1..(Len(topResults) - 1) :
              /\ ~SimLess(topResults[r].similarity, topResults[r + 1].similarity)
              /\ ~SimLess(topResults[r + 1].similarity, topResults[r].similarity)
                    => topResults[r].id < topResults[r + 1].id

\* C16, as stated: the same, the result being sorted strictly descending by
\* similarity.
C16_SemanticResultStrictlyDescending ==
    SemanticReturned =>
        /\ ThresholdCapAndBest
        /\ \A r \in 1..(Len(topResults) - 1) :
              SimLess(topResults[r + 1].similarity, topResults[r].similarity)

\* C16 witness: more than 50 qualifying candidates, of which 50 are returned,
\* among candidates that do not qualify, with two results of equal similarity
\* and two of different similarity
C16_Witness ==
    /\ SemanticReturned
    /\ Cardinality(Qualifying) > 50
    /\ Len(topResults) = 50
    /\ Cardinality(Qualifying) < Len(semEmbeddings)
    /\ \E r \in 1..(Len(topResults) - 1) :
          topResults[r].similarity = topResults[r + 1].similarity
    /\ \E r \in 1..(Len(topResults) - 1) :
          SimLess(topResults[r + 1].similarity, topResults[r].similarity)

-----------------------------------------------------------------------------
(* Further claims about the pipeline driver *)

\* the positions of the cluster lists main built for that tag
TagClusterPositions(tag) ==
    {j \in 1..Len(built.clusteringResults.tags) :
        built.clusteringResults.tags[j].tag = tag}

\* the places (cluster, position) of a cluster list holding the member x
MemberPlaces(cls, x) ==
    {<<c, m>> \in (1..Len(cls)) \X (1..MaxFiles + 1) :
        m <= Len(cls[c].members) /\ cls[c].members[m] = x}

\* C17: main produces a cluster list for a tag if and only if the tag's vector
\* set has at least 2 entries; the list has 1 cluster for 2 entries and 2
\* clusters for 3 or more, every contributing record being in exactly one.
C17_TagClustering ==
    HasBuilt =>
        /\ \A j \in 1..Len(built.clusteringResults.tags) :
              \E t \in 1..Len(built.vectorIndices.tags) :
                  built.vectorIndices.tags[t].tag = built.clusteringResults.tags[j].tag
        /\ \A t \in 1..Len(built.vectorIndices.tags) :
              LET set == built.vectorIndices.tags[t]
                  n == Len(set.entries)
                  at == TagClusterPositions(set.tag)
              IN  /\ Cardinality(at) = IF n >= 2 THEN 1 ELSE 0
                  /\ \A j \in at :
                        LET cls == built.clusteringResults.tags[j].clusters
                        IN  /\ Len(cls) = IF n = 2 THEN 1 ELSE 2
                            /\ \A e \in 1..n :
                                  Cardinality(MemberPlaces(cls, set.entries[e].index)) = 1
                            /\ \A c \in 1..Len(cls) :
                                  Len(cls[c].members) <= n

\* C17 witness: a tag set of three records clustered into two clusters, both
\* with members
C17_Witness ==
    /\ HasBuilt
    /\ \E t \in 1..Len(built.vectorIndices.tags) :
          /\ Len(built.vectorIndices.tags[t].entries) = 3
          /\ \E j \in TagClusterPositions(built.vectorIndices.tags[t].tag) :
                /\ Len(built.clusteringResults.tags[j].clusters) = 2
                /\ \A c \in 1..2 :
                      built.clusteringResults.tags[j].clusters[c].members # <<>>

InvalidFiles == {f \in FileIds : files[f].kind = "invalid"}

\* C18: a file that fails schema validation settles to a failure carrying the
\* file and that file's validator errors and no data, makes no embedding call,
\* and its record is in no artifact; the errors stay those of that file
\* whatever other files are validated before or after it.
C18_ValidationFailureIsolated ==
    \A f \in InvalidFiles :
        task[f].pc = "settled" =>
            /\ task[f].result.settled = "resolved"
            /\ ~task[f].result.success
            /\ ~task[f].result.hasData
            /\ task[f].result.file = f
            /\ task[f].result.errors = ErrorsOf(f)
            /\ task[f].vecs = <<>> /\ task[f].call = 1 /\ task[f].failedCall = 0
            /\ HasBuilt => RecordIdOf(f) \notin ArtifactRecordIds(built)

\* C18 witness: a finished run over two files that failed validation and a
\* valid one, validate.errors no longer being that of the first file
C18_Witness ==
    /\ Exited
    /\ mpc = "done"
    /\ Cardinality(InvalidFiles) = 2
    /\ 1 \in InvalidFiles
    /\ validateErrors # ErrorsOf(1)
    /\ Len(built.interviews) = 1

\* C19: in every manifest written, totalInterviews is the number of records of
\* interviews.json, failedFiles the number of files whose processing failed,
\* their sum the number of input files, and searchDocuments the length of the
\* search document list.
C19_ManifestCounts ==
    IsWritten("metadata.json") =>
        LET m == ContentOf("metadata.json")
        IN  /\ IsWritten("interviews.json") /\ IsWritten("search-index.json")
            /\ m.totalInterviews = Len(ContentOf("interviews.json"))
            /\ m.failedFiles = Cardinality(FailedFiles)
            /\ m.totalInterviews + m.failedFiles = Len(files)
            /\ m.searchDocuments = Len(ContentOf("search-index.json").documents)

\* C19 witness: a manifest written for three files, one enriched, one failed on
\* validation and one on an embedding call
C19_Witness ==
    /\ IsWritten("metadata.json")
    /\ Len(files) = 3
    /\ ContentOf("metadata.json").totalInterviews = 1
    /\ ContentOf("metadata.json").failedFiles = 2
    /\ ContentOf("metadata.json").searchDocuments = 2
    /\ InvalidFiles # {}
    /\ EmbeddingFailedFiles # {}

-----------------------------------------------------------------------------
(* Further claims about performClustering *)

Seeding == cpc = "seed"

Seeded == cpc \in {"loop", "stats", "returned"} /\ NonEmptyInput

\* C20: during seeding an entry already chosen as a center is never chosen
\* again: the centers chosen so far are copies of as many distinct entry
\* positions, and the seeding ends with min(k, n) of them.
C20_SeedsDistinct ==
    /\ (Seeding \/ Seeded) =>
          /\ Cardinality(usedIndices) = Len(centers)
          /\ \A c \in 1..Len(centers) :
                \E i \in usedIndices : centers[c] = CenterOf(vectorIndex.items[i].embedding)
    /\ Seeded => Len(centers) = MinOf(k, Len(vectorIndex.items))

\* the embeddings of the entry list all have the same, non-zero length
UniformInput ==
    /\ NonEmptyInput
    /\ \A i \in 1..Len(vectorIndex.items) : Len(vectorIndex.items[i].embedding) = 2

\* C20 restricted to entry lists whose embeddings have one non-zero length
C20_SeedsDistinctUniform ==
    UniformInput => C20_SeedsDistinct

\* the entry at position i is at a positive distance from the nearest of the
\* centers cs
AtPositiveDistance(i, cs) ==
    NumLess(Fin(0, 1), MinDistTo(vectorIndex.items[i].embedding, cs, 1))

\* the positions of the entry list not yet chosen as a center
Unchosen == (1..Len(vectorIndex.items)) \ usedIndices

\* a step of the seeding loop that chooses one more center
SeedStep == Seeding /\ Len(centers') = Len(centers) + 1

\* C21: in every step of the seeding loop, for every value Math.random() can
\* return in [0, 1), when some entry not yet chosen is at a positive distance
\* from its nearest chosen center, the entry chosen in the step is a not yet
\* chosen entry at a positive distance from its nearest chosen center.
C21_SeedAtPositiveDistance ==
    [][(SeedStep /\ \E i \in Unchosen : AtPositiveDistance(i, centers)) =>
          \E j \in Unchosen :
              /\ usedIndices' = usedIndices \cup {j}
              /\ AtPositiveDistance(j, centers)]_vars

\* C21 restricted to entry lists whose embeddings have one non-zero length
C21_SeedAtPositiveDistanceUniform ==
    [][(UniformInput /\ SeedStep /\ \E i \in Unchosen : AtPositiveDistance(i, centers)) =>
          \E j \in Unchosen :
              /\ usedIndices' = usedIndices \cup {j}
              /\ AtPositiveDistance(j, centers)]_vars

\* C21 restricted to such entry lists and to the values of Math.random() other
\* than 0
C21_PositiveDrawUniform ==
    (Seeding /\ UniformInput /\ Len(centers) < ActualK(vectorIndex.items, k)
       /\ \E i \in Unchosen : AtPositiveDistance(i, centers)) =>
        \A rnd \in 1..(RandomDen - 1) :
            LET j == ChosenIdx(vectorIndex.items, centers, usedIndices, rnd)
            IN  j \in Unchosen /\ AtPositiveDistance(j, centers)

\* a step that runs one round of the k-means loop
RoundStep == cpc = "loop" /\ rounds' = rounds + 1

\* the (squared) distance of the entry at position i to the center cluster c has
\* when the round starts
DistanceTo(i, c) ==
    euclideanDistance(vectorIndex.items[i].embedding, clusters[c].center)

\* x = y on JavaScript numbers (false when either is NaN)
NumEqual(x, y) ==
    /\ x.kind = y.kind
    /\ x.kind # "nan"
    /\ x.kind = "fin" => x.num * y.den = y.num * x.den

\* the entry at position i is a member of cluster c when the round ends
MemberAfter(i, c) ==
    \E m \in 1..Len(clusters'[c].members) :
        clusters'[c].members[m] = vectorIndex.items[i].index

\* C22: in every round each entry is assigned to the cluster whose center, as
\* it is when the round starts, is at the minimum Euclidean distance from the
\* entry's embedding: that distance is a number, no other center is nearer, and
\* no center of a lower cluster index is at the same distance.
C22_NearestCenter ==
    [][RoundStep =>
          \A i \in 1..Len(vectorIndex.items) :
              \E c \in 1..Len(clusters) :
                  /\ MemberAfter(i, c)
                  /\ DistanceTo(i, c).kind # "nan"
                  /\ \A c2 \in 1..Len(clusters) :
                        /\ ~NumLess(DistanceTo(i, c2), DistanceTo(i, c))
                        /\ c2 < c => ~NumEqual(DistanceTo(i, c2), DistanceTo(i, c))]_vars

\* two centers with the same coordinates, none of them NaN
SameCenter(a, b) ==
    /\ Len(a.num) = Len(b.num)
    /\ \A i \in 1..Len(a.num) :
          /\ ~a.nan[i]
          /\ ~b.nan[i]
          /\ a.num[i] * b.den = b.num[i] * a.den

\* C22 witness: a returned clustering into three clusters whose last round moved
\* no center, the centers of the first two equal: the entries at that point tie
\* between them and are all in the first, the second is empty, and the third
\* holds an entry nearer to its center
C22_Witness ==
    /\ Returned
    /\ UniformInput
    /\ ~changedLast
    /\ Len(result) = 3
    /\ SameCenter(result[1].center, result[2].center)
    /\ result[1].size > 0
    /\ result[2].size = 0
    /\ result[3].size > 0
    /\ ~SameCenter(result[3].center, result[1].center)

\* some coordinate of the center of cluster c differs after the round from its
\* value before the round by more than 0.001 (both values being numbers)
MovedInRound(c) ==
    LET old == clusters[c].center
        new == clusters'[c].center
    IN  \E i \in 1..MinOf(Len(old.num), Len(new.num)) :
            /\ ~old.nan[i]
            /\ ~new.nan[i]
            /\ \/ (new.num[i] * old.den - old.num[i] * new.den) * 1000 > new.den * old.den
               \/ (old.num[i] * new.den - new.num[i] * old.den) * 1000 > new.den * old.den

\* C23: a cluster that receives no members in a round keeps the center it had
\* when the round started, and does not by itself cause another round: a further
\* round follows only when the center of a cluster with members moved.
C23_EmptyClusterKeepsCenter ==
    [][RoundStep =>
          /\ \A c \in 1..Len(clusters) :
                clusters'[c].members = <<>> => clusters'[c].center = clusters[c].center
          /\ cpc' = "loop" =>
                \E c \in 1..Len(clusters) : clusters'[c].members # <<>> /\ MovedInRound(c)]_vars

\* C23 witness: after a first round that is followed by another one, a cluster
\* without members still has its initial center, a copy of an entry
C23_Witness ==
    /\ cpc = "loop"
    /\ rounds = 1
    /\ \E c \in 1..Len(clusters) :
          /\ clusters[c].members = <<>>
          /\ clusters[c].center = centers[c]
    /\ \E c \in 1..Len(clusters) :
          /\ clusters[c].members # <<>>
          /\ clusters[c].center # centers[c]

\* C24: the k-means loop stops after the first round in which no center
\* coordinate differs from its previous value by more than 0.001, and runs a
\* further round after every round in which some coordinate moved by more than
\* that, as long as fewer than 20 rounds have run.
C24_StopsWhenNoCenterMoved ==
    [][RoundStep =>
          LET moved == \E c \in 1..Len(clusters) : MovedInRound(c)
          IN  /\ cpc' = IF moved /\ rounds' < MaxIterations THEN "loop" ELSE "stats"
              /\ rounds > 0 => changedLast]_vars

\* C24 witness: a returned clustering whose loop stopped before the cap, after
\* a round that moved no center, a round before it having moved one
C24_Witness ==
    /\ Returned
    /\ NonEmptyInput
    /\ rounds >= 2
    /\ rounds < MaxIterations
    /\ ~changedLast
    /\ \E c \in 1..Len(result) : \A i \in 1..Len(centers) : ~SameCenter(result[c].center, centers[i])

\* the embedding of the entry at position i and the center of cluster c, as it
\* is when the round starts, have different lengths
LengthMismatch(i, c) ==
    Len(vectorIndex.items[i].embedding) # Len(clusters[c].center.num)

\* C25: euclideanDistance returns Infinity for an embedding and a center of
\* different lengths; in every round an entry is not assigned to a cluster whose
\* center has another length than its embedding when some other center is at a
\* finite distance, and an entry at infinite distance from every center is
\* assigned to the cluster of index 0.
C25_LengthMismatchIsInfinite ==
    [][RoundStep =>
          \A i \in 1..Len(vectorIndex.items) :
              /\ \A c \in 1..Len(clusters) :
                    LengthMismatch(i, c) =>
                        /\ DistanceTo(i, c) = Infinity
                        /\ (\E c2 \in 1..Len(clusters) : DistanceTo(i, c2).kind = "fin")
                              => ~MemberAfter(i, c)
              /\ (\A c \in 1..Len(clusters) : DistanceTo(i, c) = Infinity)
                    => MemberAfter(i, 1)]_vars

\* C25 witness: a returned clustering into two or more clusters, every center
\* of length 2, in which an entry with an empty embedding is a member of the
\* cluster of index 0 and another cluster has members
C25_Witness ==
    /\ Returned
    /\ NonEmptyInput
    /\ Len(result) >= 2
    /\ \A c \in 1..Len(result) : Len(result[c].center.num) = 2
    /\ \E i \in 1..Len(vectorIndex.items) :
          /\ vectorIndex.items[i].embedding = <<>>
          /\ \E m \in 1..Len(result[1].members) :
                result[1].members[m] = vectorIndex.items[i].index
    /\ \E c \in 2..Len(result) : result[c].size > 0

\* the embeddings of the returned members of cluster c
MemberEmbeddings(c) == FoundEmbeddings(vectorIndex.items, result[c].members)

\* center is the coordinate-wise mean of the embeddings embs
IsMeanOf(center, embs) ==
    /\ Len(embs) > 0
    /\ \A m \in 1..Len(embs) : Len(embs[m]) = Len(center.num)
    /\ \A i \in 1..Len(center.num) :
          /\ ~center.nan[i]
          /\ center.num[i] * Len(embs) = center.den * SumSeq([m \in 1..Len(embs) |-> embs[m][i]])

\* C28: when performClustering returns, the center of every cluster with
\* members is the coordinate-wise mean of the embeddings of the members it is
\* returned with.
C28_CenterIsMeanOfMembers ==
    (Returned /\ NonEmptyInput) =>
        \A c \in 1..Len(result) :
            result[c].size > 0 =>
                /\ Len(MemberEmbeddings(c)) = result[c].size
                /\ IsMeanOf(result[c].center, MemberEmbeddings(c))

\* C28 restricted to entry lists whose embeddings have one non-zero length
C28_CenterIsMeanOfMembersUniform ==
    UniformInput => C28_CenterIsMeanOfMembers

\* C28 in a run of main: no center of a cluster of a tag set has a NaN
\* coordinate
C28_TagCentersAreNumbers ==
    HasBuilt =>
        \A j \in 1..Len(built.clusteringResults.tags) :
            \A c \in 1..Len(built.clusteringResults.tags[j].clusters) :
                LET center == built.clusteringResults.tags[j].clusters[c].center
                IN  \A i \in 1..Len(center.num) : ~center.nan[i]

-----------------------------------------------------------------------------
(* Further claims about main *)

\* C26: index building, clustering and the construction of the search index
\* start only when every input file's enrichment has finished or failed, and
\* work on the results of all the files; no artifact is written before all the
\* derived structures have been computed, and what is written is taken from them.
C26_BuildAfterAllFiles ==
    /\ HasBuilt =>
          /\ \A f \in 1..Len(files) :
                task[f].pc = "settled" /\ task[f].result.settled = "resolved"
          /\ Len(built.successful) + Len(built.failed) = Len(files)
          /\ \E rnd \in 0..(RandomDen - 1) : built = Build(Results, rnd)
    /\ written # <<>> =>
          /\ HasBuilt
          /\ \A w \in 1..Len(written) : written[w] = Artifacts(built)[w]
    /\ ~HasBuilt => built = <<>>

\* C26 witness: a run over three files, one of which failed, that has written
\* its first artifact from the structures derived from the two others
C26_Witness ==
    /\ mpc = "writing"
    /\ Len(written) = 1
    /\ Len(files) = 3
    /\ Len(built.failed) = 1
    /\ Len(built.interviews) = 2
    /\ Len(built.searchData.documents) >= 2

-----------------------------------------------------------------------------
(* The collegeExperience aggregate, on records with summaries of several
   categories *)

\* the categories 'ACADEMIC', 'Career', 'Pre-College', 'Collage' and ''
UpperAcademic == <<"A", "C", "A", "D", "E", "M", "I", "C">>

Career == <<"C", "a", "r", "e", "e", "r">>

PreCollege == <<"P", "r", "e", "-", "C", "o", "l", "l", "e", "g", "e">>

Collage == <<"C", "o", "l", "l", "a", "g", "e">>

NoCategory == <<>>

\* the summaries of the input records: none, one or several, of categories that
\* name college or academic in some letter case, inside a longer word or not at
\* all, with texts that are blank or not
CollegeSummaryOptions ==
    { <<>>,
      <<Summary(CollegeLife, <<"a">>)>>,
      <<Summary(UpperAcademic, <<"b">>)>>,
      <<Summary(Career, <<"b">>)>>,
      <<Summary(Career, <<"b">>), Summary(PreCollege, <<"a">>),
        Summary(UpperAcademic, <<"b">>)>>,
      <<Summary(CollegeLife, SP)>>,
      <<Summary(Collage, <<"a">>), Summary(NoCategory, <<"b">>)>>,
      <<Summary(PreCollege, <<>>), Summary(Career, <<"a">>)>> }

\* the lists of exactly m input records with such summaries, ids by position
RECURSIVE CollegeCorporaOfLen(_)
CollegeCorporaOfLen(m) ==
    IF m = 0 THEN {<<>>}
    ELSE {Append(c, Record(m, s, <<>>, <<>>)) :
            c \in CollegeCorporaOfLen(m - 1), s \in CollegeSummaryOptions}

CollegeCorpora(n) == UNION {CollegeCorporaOfLen(m) : m \in 0..n}

\* buildVectorIndices is called with the records as processInterview enriched them
InitCollege ==
    /\ indexInput \in {[i \in 1..Len(c) |-> Enrich(c[i])] : c \in CollegeCorpora(MaxRecords)}
    /\ ipc = "call"
    /\ indices = <<>>
    /\ ClusterIdle
    /\ SearchIdle
    /\ PipelineIdle
    /\ EnrichIdle
    /\ EmbedIdle
    /\ SemanticIdle
    /\ FullTestIdle

SpecCollege == InitCollege /\ [][NextIndex]_vars

\* the categories of the model that contain 'college' or 'academic' when case
\* is ignored
QualifyingCategories == {CollegeLife, UpperAcademic, PreCollege}

\* the texts of the summaries of a qualifying category, in order
RECURSIVE QualifyingTexts(_)
QualifyingTexts(summaries) ==
    IF summaries = <<>> THEN <<>>
    ELSE (IF Head(summaries).category \in QualifyingCategories
          THEN <<Head(summaries).summaryText>> ELSE <<>>)
         \o QualifyingTexts(Tail(summaries))

\* the text with a single space between consecutive elements
RECURSIVE SpaceJoined(_)
SpaceJoined(texts) ==
    IF texts = <<>> THEN <<>>
    ELSE IF Len(texts) = 1 THEN texts[1]
    ELSE texts[1] \o <<" ">> \o SpaceJoined(Tail(texts))

\* the entries of the collegeExperience set for the record at position i
CollegeEntriesOf(i) ==
    {e \in 1..Len(indices.collegeExperience) :
        indices.collegeExperience[e].index = i - 1}

\* C27: the collegeExperience aggregate of a record is the embedding of the
\* space-joined texts of exactly the summaries whose category contains
\* 'college' or 'academic', case ignored; when no summary qualifies or the
\* joined text is blank the aggregate is the empty vector and the record has no
\* entry in the collegeExperience set, and otherwise it has one entry, with
\* that embedding.
C27_CollegeAggregate ==
    IndexReturned =>
        \A i \in 1..Len(indexInput) :
            LET joined == SpaceJoined(QualifyingTexts(indexInput[i].summaries))
                blank == \A p \in 1..Len(joined) : joined[p] = " "
                aggregate == indexInput[i].categoryEmbeddings.collegeExperience
            IN  /\ aggregate = IF blank THEN <<>> ELSE ModelOutput(joined)
                /\ blank => CollegeEntriesOf(i) = {}
                /\ ~blank =>
                      /\ Cardinality(CollegeEntriesOf(i)) = 1
                      /\ \A e \in CollegeEntriesOf(i) :
                            /\ indices.collegeExperience[e].embedding = aggregate
                            /\ indices.collegeExperience[e].id = indexInput[i].interviewId

\* C27 witness: two records, the first with summaries of three categories of
\* which two qualify, in the set with the embedding of those two texts only; the
\* second with a qualifying summary of blank text, absent from the set but
\* present in the summary set
C27_Witness ==
    /\ IndexReturned
    /\ Len(indexInput) = 2
    /\ Len(indexInput[1].summaries) = 3
    /\ indexInput[1].categoryEmbeddings.collegeExperience = <<1, 1>>
    /\ indexInput[1].categoryEmbeddings.summary = <<1, 2>>
    /\ Len(indexInput[2].summaries) = 2
    /\ indexInput[2].summaries[1].category = PreCollege
    /\ indexInput[2].categoryEmbeddings.collegeExperience = <<>>
    /\ Len(indices.collegeExperience) = 1
    /\ Len(indices.summary) = 2

-----------------------------------------------------------------------------
(* The ids of the search documents, on records whose ids may contain the
   separator '_' *)

\* the interview ids 'a', 'a_b' and 'b', and the theme and quote ids 'c' and
\* 'b_c'
InterviewIds == {<<"a">>, <<"a", "_", "b">>, <<"b">>}

ItemIds == {<<"c">>, <<"b", "_", "c">>}

ThemeWithId(id) ==
    [themeId |-> id, title |-> id, description |-> <<"b">>, embedding |-> <<>>]

QuoteWithId(id) ==
    [quoteId |-> id, quoteText |-> <<"a">>, tags |-> <<>>, embedding |-> <<>>]

\* no theme, one theme, or two themes with different or equal ids
ThemeIdOptions ==
    {<<>>} \cup {<<ThemeWithId(x)>> : x \in ItemIds}
           \cup {<<ThemeWithId(<<"c">>), ThemeWithId(x)>> : x \in ItemIds}

QuoteIdOptions == {<<>>} \cup {<<QuoteWithId(x)>> : x \in ItemIds}

RecordsWithIds ==
    {[interviewId |-> id, intervieweeName |-> <<>>, summaries |-> <<>>,
      themes |-> t, quotes |-> q, timelinePoints |-> <<>>,
      areasForImprovement |-> <<>>] :
        id \in InterviewIds, t \in ThemeIdOptions, q \in QuoteIdOptions}

\* the lists of exactly m such records
RECURSIVE IdCorporaOfLen(_)
IdCorporaOfLen(m) ==
    IF m = 0 THEN {<<>>}
    ELSE {Append(c, r) : c \in IdCorporaOfLen(m - 1), r \in RecordsWithIds}

IdCorpora(n) == UNION {IdCorporaOfLen(m) : m \in 0..n}

InitIds ==
    /\ corpus \in {[i \in 1..Len(c) |-> Enrich(c[i])] : c \in IdCorpora(MaxRecords)}
    /\ bpc = "call"
    /\ searchData = [documents |-> <<>>, embeddings |-> <<>>]
    /\ ClusterIdle
    /\ PipelineIdle
    /\ RestIdle

SpecIds == InitIds /\ [][NextSearch]_vars

\* the elements of the sequence s are pairwise different
PairwiseDistinct(s) == \A i, j \in 1..Len(s) : i # j => s[i] # s[j]

\* interview ids are unique in the corpus, theme ids and quote ids within their
\* record
UniqueIds ==
    /\ PairwiseDistinct([i \in 1..Len(corpus) |-> corpus[i].interviewId])
    /\ \A i \in 1..Len(corpus) :
          /\ PairwiseDistinct([t \in 1..Len(corpus[i].themes) |-> corpus[i].themes[t].themeId])
          /\ PairwiseDistinct([q \in 1..Len(corpus[i].quotes) |-> corpus[i].quotes[q].quoteId])

\* searchIndex.documents.find(d => d.id === id): the first document with that id
FindDocument(documents, id) ==
    CHOOSE d \in 1..Len(documents) :
        /\ documents[d].id = id
        /\ \A e \in 1..(d - 1) : documents[e].id # id

\* C29: for every corpus in which interview ids are unique and theme ids and
\* quote ids are unique within their record, the ids of the documents of
\* buildSearchIndex are pairwise distinct, and the lookup of a document by its
\* id returns that document.
C29_DocumentIdsDistinct ==
    (SearchReturned /\ UniqueIds) =>
        /\ PairwiseDistinct([d \in 1..Len(searchData.documents) |-> searchData.documents[d].id])
        /\ \A d \in 1..Len(searchData.documents) :
              FindDocument(searchData.documents, searchData.documents[d].id) = d

\* no id of the corpus contains the separator '_'
SeparatorFreeIds ==
    \A i \in 1..Len(corpus) :
        /\ \A p \in 1..Len(corpus[i].interviewId) : corpus[i].interviewId[p] # "_"
        /\ \A t \in 1..Len(corpus[i].themes) :
              \A p \in 1..Len(corpus[i].themes[t].themeId) : corpus[i].themes[t].themeId[p] # "_"
        /\ \A q \in 1..Len(corpus[i].quotes) :
              \A p \in 1..Len(corpus[i].quotes[q].quoteId) : corpus[i].quotes[q].quoteId[p] # "_"

\* C29 restricted to corpora none of whose ids contains '_'
C29_DocumentIdsDistinctSeparatorFree ==
    SeparatorFreeIds => C29_DocumentIdsDistinct

-----------------------------------------------------------------------------
(* runFullTest(interviewCount, sizeMultiplier) as a state machine
   (scripts/test-full.js).  The functions it calls (generateMockDataScaled,
   runCommand, deployWithAuth, PerformanceTestRunner, cleanupTestFiles) are
   its environment: each call returns one of the outcomes its callers handle.
   A step runs from one await to the next. *)

\* the largest number of errors perfRunner.runTests() reports in the model
MaxPerfErrors == 2

\* const isRecent = timeDiff < 10 * 60 * 1000
RecentWindow == 600000

\* what fetch(metadataUrl) and response.json() can give verifyDeployment: an
\* exception, a response that is not ok, metadata whose processedAt is not a
\* date, or metadata with a date
FetchOutcomes == {"throws", "notOk", "invalidDate", "ok"}

\* testTime - deploymentTime, in milliseconds
TimeDiffs == {-1000, 0, RecentWindow - 1, RecentWindow, RecentWindow + 300000}

\* verifyDeployment(url, testId), lines 66-96
verifyDeployment(fetchOutcome, timeDiff) ==
    CASE fetchOutcome = "throws" -> FALSE
      [] fetchOutcome = "notOk" -> FALSE
      [] fetchOutcome = "invalidDate" -> FALSE
      [] OTHER -> timeDiff < RecentWindow

\* deployWithAuth(), lines 43-63: the gh-pages command it runs, with the
\* token-authenticated repository URL when GITHUB_TOKEN is set
deployWithAuth(token) ==
    IF token THEN "gh-pages --repo authUrl" ELSE "gh-pages"

\* mutant of DeploymentRuns: the deployment does not depend on the earlier phases
DeploymentRunsInCI(passed, ci) == ci

\* if (testPassed && process.env.CI), line 175
DeploymentRuns(passed, ci) == passed /\ ci

\* testRun.overallSuccess = testPassed && testRun.errors.length === 0
OverallSuccess(passed, errs) == passed /\ Len(errs) = 0

\* `${testRun.id}_${testRun.overallSuccess ? 'complete' : 'failed'}.json`
ResultsFileName(success) == IF success THEN "complete" ELSE "failed"

\* n copies of the error message e
Copies(n, e) == [i \in 1..n |-> e]

InitFullTest ==
    /\ inCI \in BOOLEAN
    /\ hasToken \in BOOLEAN
    /\ tpc = "setupGitConfig"
    /\ testPassed = TRUE
    /\ testErrors = <<>>
    /\ deploymentSuccess = FALSE
    /\ phases = NoPhases
    /\ isCurrentDeployment = "none"
    /\ overallSuccess = "unset"
    /\ calls = <<>>
    /\ resultsFile = NoResultsFile
    /\ ClusterIdle
    /\ SearchIdle
    /\ PipelineIdle
    /\ IndexIdle
    /\ EnrichIdle
    /\ EmbedIdle
    /\ SemanticIdle

\* lines 118-120: setupGitConfig catches what its git commands throw
SetupGitConfig ==
    /\ tpc = "setupGitConfig"
    /\ calls' = Append(calls, "setupGitConfig")
    /\ tpc' = "mockGeneration"
    /\ UNCHANGED <<inCI, hasToken, testPassed, testErrors, deploymentSuccess, phases,
                   isCurrentDeployment, overallSuccess, resultsFile>>
    /\ UNCHANGED <<clusterVars, searchVars, pipelineVars, indexVars, enrichVars,
                   embedVars, semanticVars>>

\* lines 123-136: phase 1; an exception goes to the catch block (lines 256-259)
MockGeneration ==
    /\ tpc = "mockGeneration"
    /\ calls' = Append(calls, "generateMockDataScaled")
    /\ \E ok \in BOOLEAN :
          IF ok
          THEN /\ phases' = [phases EXCEPT !.mockGeneration = "success"]
               /\ tpc' = "dataProcessing"
               /\ UNCHANGED <<testPassed, testErrors>>
          ELSE /\ testErrors' = Append(testErrors, "Unexpected error")
               /\ testPassed' = FALSE
               /\ tpc' = "cleanup"
               /\ UNCHANGED phases
    /\ UNCHANGED <<inCI, hasToken, deploymentSuccess, isCurrentDeployment, overallSuccess, resultsFile>>
    /\ UNCHANGED <<clusterVars, searchVars, pipelineVars, indexVars, enrichVars,
                   embedVars, semanticVars>>

\* lines 142-154: phase 2, npm run process-data
DataProcessing ==
    /\ tpc = "dataProcessing"
    /\ calls' = Append(calls, "process-data")
    /\ \E success \in BOOLEAN :
          /\ phases' = [phases EXCEPT !.dataProcessing =
                           IF success THEN "success" ELSE "failed"]
          /\ testErrors' = IF success THEN testErrors
                           ELSE Append(testErrors, "Data processing failed")
          /\ testPassed' = (testPassed /\ success)
    /\ tpc' = "siteBuild"
    /\ UNCHANGED <<inCI, hasToken, deploymentSuccess, isCurrentDeployment, overallSuccess, resultsFile>>
    /\ UNCHANGED <<clusterVars, searchVars, pipelineVars, indexVars, enrichVars,
                   embedVars, semanticVars>>

\* lines 160-175: phase 3, npm run build, and the test of line 175; when the
\* deployment is skipped (lines 196-202) so is the performance test (lines
\* 248-254), and the try block ends
SiteBuild ==
    /\ tpc = "siteBuild"
    /\ calls' = Append(calls, "build")
    /\ \E success \in BOOLEAN :
          /\ testErrors' = IF success THEN testErrors
                           ELSE Append(testErrors, "Site build failed")
          /\ testPassed' = (testPassed /\ success)
          /\ IF DeploymentRuns(testPassed', inCI)
             THEN /\ phases' = [phases EXCEPT !.siteBuild = "success"]
                  /\ tpc' = "deployment"
             ELSE /\ phases' = [phases EXCEPT
                                  !.siteBuild = IF success THEN "success" ELSE "failed",
                                  !.deployment = "skipped",
                                  !.performanceTest = "skipped"]
                  /\ tpc' = "cleanup"
    /\ UNCHANGED <<inCI, hasToken, deploymentSuccess, isCurrentDeployment, overallSuccess, resultsFile>>
    /\ UNCHANGED <<clusterVars, searchVars, pipelineVars, indexVars, enrichVars,
                   embedVars, semanticVars>>

\* lines 179-195 and 205: phase 4, deployWithAuth
Deployment ==
    /\ tpc = "deployment"
    /\ calls' = Append(calls, deployWithAuth(hasToken))
    /\ \E success \in BOOLEAN :
          IF success
          THEN /\ deploymentSuccess' = TRUE
               /\ phases' = [phases EXCEPT !.deployment = "success"]
               /\ tpc' = "propagation"
               /\ UNCHANGED <<testPassed, testErrors>>
          ELSE /\ testErrors' = Append(testErrors, "Deployment failed")
               /\ testPassed' = FALSE
               /\ phases' = [phases EXCEPT !.deployment = "failed",
                                           !.performanceTest = "skipped"]
               /\ tpc' = "cleanup"
               /\ UNCHANGED deploymentSuccess
    /\ UNCHANGED <<inCI, hasToken, isCurrentDeployment, overallSuccess, resultsFile>>
    /\ UNCHANGED <<clusterVars, searchVars, pipelineVars, indexVars, enrichVars,
                   embedVars, semanticVars>>

\* lines 189-191: the 30 seconds given to the deployment to propagate
Propagation ==
    /\ tpc = "propagation"
    /\ tpc' = "verifyDeployment"
    /\ UNCHANGED <<inCI, hasToken, testPassed, testErrors, deploymentSuccess, phases,
                   isCurrentDeployment, overallSuccess, calls, resultsFile>>
    /\ UNCHANGED <<clusterVars, searchVars, pipelineVars, indexVars, enrichVars,
                   embedVars, semanticVars>>

\* lines 205-213 and 239-247: the deployment is verified as current, or not
VerifyDeployment ==
    /\ tpc = "verifyDeployment"
    /\ calls' = Append(calls, "verifyDeployment")
    /\ \E fetchOutcome \in FetchOutcomes, timeDiff \in TimeDiffs :
          IF verifyDeployment(fetchOutcome, timeDiff)
          THEN /\ isCurrentDeployment' = "yes"
               /\ tpc' = "performanceTest"
               /\ UNCHANGED <<testPassed, testErrors, phases>>
          ELSE /\ isCurrentDeployment' = "no"
               /\ phases' = [phases EXCEPT !.performanceTest = "skipped"]
               /\ testErrors' = Append(testErrors, "Could not verify current deployment")
               /\ testPassed' = FALSE
               /\ tpc' = "cleanup"
    /\ UNCHANGED <<inCI, hasToken, deploymentSuccess, overallSuccess, resultsFile>>
    /\ UNCHANGED <<clusterVars, searchVars, pipelineVars, indexVars, enrichVars,
                   embedVars, semanticVars>>

\* lines 214-238: phase 5; runTests reports n errors or throws (n = -1), and
\* generateSummary may throw after it
PerformanceTest ==
    /\ tpc = "performanceTest"
    /\ calls' = Append(calls, "runTests")
    /\ \E n \in (-1)..MaxPerfErrors, summaryThrows \in BOOLEAN :
          LET reported == IF n > 0 THEN testErrors \o Copies(n, "Performance test")
                          ELSE testErrors
              thrown == n = -1 \/ summaryThrows
          IN  /\ testErrors' = IF thrown
                               THEN Append(reported, "Performance testing failed")
                               ELSE reported
              /\ testPassed' = (testPassed /\ n = 0 /\ ~thrown)
              /\ phases' = [phases EXCEPT !.performanceTest =
                               IF n = 0 /\ ~thrown THEN "success" ELSE "failed"]
    /\ tpc' = "cleanup"
    /\ UNCHANGED <<inCI, hasToken, deploymentSuccess, isCurrentDeployment, overallSuccess, resultsFile>>
    /\ UNCHANGED <<clusterVars, searchVars, pipelineVars, indexVars, enrichVars,
                   embedVars, semanticVars>>

\* lines 260-272: the finally block up to overallSuccess; an exception of
\* cleanupTestFiles is caught and logged
Cleanup ==
    /\ tpc = "cleanup"
    /\ calls' = Append(calls, "cleanupTestFiles")
    /\ overallSuccess' = IF OverallSuccess(testPassed, testErrors) THEN "true" ELSE "false"
    /\ tpc' = "makeResultsDir"
    /\ UNCHANGED <<inCI, hasToken, testPassed, testErrors, deploymentSuccess, phases,
                   isCurrentDeployment, resultsFile>>
    /\ UNCHANGED <<clusterVars, searchVars, pipelineVars, indexVars, enrichVars,
                   embedVars, semanticVars>>

\* lines 275-276: await fs.mkdir(resultsDir, { recursive: true })
MakeResultsDir ==
    /\ tpc = "makeResultsDir"
    /\ calls' = Append(calls, "mkdir")
    /\ tpc' = "writeResults"
    /\ UNCHANGED <<inCI, hasToken, testPassed, testErrors, deploymentSuccess, phases,
                   isCurrentDeployment, overallSuccess, resultsFile>>
    /\ UNCHANGED <<clusterVars, searchVars, pipelineVars, indexVars, enrichVars,
                   embedVars, semanticVars>>

\* lines 278-319: the results file is written and testRun returned
WriteResults ==
    /\ tpc = "writeResults"
    /\ calls' = Append(calls, "writeFile")
    /\ resultsFile' = [written |-> TRUE,
                       name |-> ResultsFileName(overallSuccess = "true"),
                       errors |-> testErrors]
    /\ tpc' = "returned"
    /\ UNCHANGED <<inCI, hasToken, testPassed, testErrors, deploymentSuccess, phases,
                   isCurrentDeployment, overallSuccess>>
    /\ UNCHANGED <<clusterVars, searchVars, pipelineVars, indexVars, enrichVars,
                   embedVars, semanticVars>>

NextFullTest ==
    \/ SetupGitConfig
    \/ MockGeneration
    \/ DataProcessing
    \/ SiteBuild
    \/ Deployment
    \/ Propagation
    \/ VerifyDeployment
    \/ PerformanceTest
    \/ Cleanup
    \/ MakeResultsDir
    \/ WriteResults

\* a call that was made returns, so runFullTest goes on from every await
SpecFullTest == InitFullTest /\ [][NextFullTest]_vars /\ WF_vars(NextFullTest)

Called(name) == \E c \in 1..Len(calls) : calls[c] = name

\* the phase order of C30 in a state of a run
PhaseOrder ==
    /\ (\E token \in BOOLEAN : Called(deployWithAuth(token))) =>
          /\ phases.dataProcessing = "success"
          /\ phases.siteBuild = "success"
    /\ Called("runTests") =>
          /\ phases.deployment = "success"
          /\ isCurrentDeployment = "yes"
          /\ Called("verifyDeployment")
    /\ overallSuccess = "true" => testErrors = <<>>
    /\ resultsFile.written =>
          /\ Called("cleanupTestFiles")
          /\ resultsFile.errors = testErrors
          /\ resultsFile.name = "complete" <=> testErrors = <<>>

\* the run has ended with the cleanup done and the results file written
CleanedUpAndWritten ==
    /\ tpc = "returned"
    /\ Called("cleanupTestFiles")
    /\ Called("writeFile")
    /\ resultsFile.written

====
